---- MODULE Spec2Model ----
(***************************************************************************)
(* Model of the etcetera client (Client, NewClient, preload, Save, Load,   *)
(* Watch, fillField, Version) together with the in-memory store used by    *)
(* its test-suite (clientMock).                                            *)
(*                                                                         *)
(* Text is a sequence of one-character strings, so that path              *)
(* concatenation, strings.Split, strconv.FormatInt and strconv.ParseInt    *)
(* are computed and not assumed.                                           *)
(***************************************************************************)
EXTENDS Integers, Sequences, FiniteSets, TLC

(* ------------------------------ bounds -------------------------------- *)
\* no call is started that would take clientMock.etcdIndex above this value
MaxIndex == 4
\* number of Save, Load and Watch calls the caller makes on its client
MaxCalls == 2
\* number of writes other clients make to the store
MaxForeign == 1
\* number of errors the mock is told to return
MaxFaults == 1

(* ------------------------------- text --------------------------------- *)
Digits == <<"0", "1", "2", "3", "4", "5", "6", "7", "8", "9">>

IsDigit(ch) == \E i \in 1..10 : Digits[i] = ch

DigitVal(ch) == (CHOOSE i \in 1..10 : Digits[i] = ch) - 1

RECURSIVE FormatUint(_)
FormatUint(n) ==
    IF n < 10 THEN <<Digits[n + 1]>>
    ELSE FormatUint(n \div 10) \o <<Digits[(n % 10) + 1]>>

\* a rendering that loses the sign
FormatIntNoSign(v) == IF v < 0 THEN FormatUint(0 - v) ELSE FormatUint(v)

\* strconv.FormatInt(value, 10)
FormatInt(v) == IF v < 0 THEN <<"-">> \o FormatUint(0 - v) ELSE FormatUint(v)

RECURSIVE ParseUint(_, _)
ParseUint(s, acc) ==
    IF s = <<>> THEN acc
    ELSE ParseUint(Tail(s), acc * 10 + DigitVal(Head(s)))

\* a parser that takes what it cannot read for zero
ParseIntLenient(s) ==
    LET signed == s # <<>> /\ (Head(s) = "-" \/ Head(s) = "+")
        body   == IF signed THEN Tail(s) ELSE s
        ok     == body # <<>> /\ \A i \in 1..Len(body) : IsDigit(body[i])
    IN  [ok |-> TRUE,
         val |-> IF ~ok THEN 0
                 ELSE IF signed /\ Head(s) = "-" THEN 0 - ParseUint(body, 0)
                 ELSE ParseUint(body, 0)]

\* strconv.ParseInt(s, 10, 64): optional sign, then one or more digits
ParseInt(s) ==
    LET signed == s # <<>> /\ (Head(s) = "-" \/ Head(s) = "+")
        body   == IF signed THEN Tail(s) ELSE s
        ok     == body # <<>> /\ \A i \in 1..Len(body) : IsDigit(body[i])
    IN  IF ~ok THEN [ok |-> FALSE, val |-> 0]
        ELSE [ok |-> TRUE,
              val |-> IF signed /\ Head(s) = "-" THEN 0 - ParseUint(body, 0)
                      ELSE ParseUint(body, 0)]

\* the text written for a flag (save, case reflect.Bool)
FormatBool(b) == IF b THEN <<"t", "r", "u", "e">> ELSE <<"f", "a", "l", "s", "e">>

\* reflect.Value.String() of a value whose kind is not String: "<T Value>"
ValueString(kind) ==
    IF kind = "int" THEN <<"<", "i", "n", "t", " ", "V", "a", "l", "u", "e", ">">>
    ELSE IF kind = "int64" THEN <<"<", "i", "n", "t", "6", "4", " ", "V", "a", "l", "u", "e", ">">>
    ELSE <<"<", "b", "o", "o", "l", " ", "V", "a", "l", "u", "e", ">">>

\* the element of a set of one element: a result is computed once, and then
\* looked at
The(S) == CHOOSE x \in S : TRUE

\* strings.Split(s, "/")
RECURSIVE SplitFrom(_, _, _)
SplitFrom(s, i, cur) ==
    IF i > Len(s) THEN <<cur>>
    ELSE IF s[i] = "/" THEN <<cur>> \o SplitFrom(s, i + 1, <<>>)
    ELSE SplitFrom(s, i + 1, Append(cur, s[i]))

Split(s) == SplitFrom(s, 1, <<>>)

(* ------------------------ structure descriptors ----------------------- *)
\* one field of a Go structure: its name, its `etcd` tag (empty = no tag), its
\* reflect.Kind, the kind of its elements (slices) and its own fields
\* (structures and slices of structures)
Fld(name, tag, kind, elem, fields) ==
    [name |-> name, tag |-> tag, kind |-> kind, elem |-> elem, fields |-> fields]

NoFields == <<>>

\* the structure types handed to NewClient, after the ones of TestSave, TestLoad
\* and TestWatch
Types == <<
    \* 1: scalars and a field with no tag
    << Fld("Field1", <<"/", "a">>, "string", "", NoFields),
       Fld("Field2", <<"/", "b">>, "int", "", NoFields),
       Fld("Field4", <<"/", "d">>, "bool", "", NoFields),
       Fld("Extra", <<>>, "string", "", NoFields) >>,
    \* 2: an embedded structure, followed by a scalar
    << Fld("Field", <<"/", "a">>, "struct", "",
           << Fld("Subfield1", <<"/", "b">>, "int", "", NoFields),
              Fld("Extra", <<>>, "string", "", NoFields),
              Fld("Subfield3", <<"/", "d">>, "bool", "", NoFields) >>),
       Fld("Field3", <<"/", "c">>, "int64", "", NoFields) >>,
    \* 3: a slice of strings
    << Fld("Field", <<"/", "a">>, "slice", "string", NoFields) >>,
    \* 4: a slice of integers
    << Fld("Field", <<"/", "a">>, "slice", "int", NoFields) >>,
    \* 5: a slice of structures
    << Fld("Field", <<"/", "a">>, "slice", "struct",
           << Fld("Subfield", <<"/", "b">>, "int", "", NoFields),
              Fld("Extra", <<>>, "string", "", NoFields) >>) >>,
    \* 6: a map of string to string
    << Fld("Field", <<"/", "a">>, "map", "", NoFields) >>,
    \* 7: a field of a kind save and fillField have no case for, and a scalar
    << Fld("Field", <<"/", "a">>, "float64", "", NoFields),
       Fld("Field2", <<"/", "b">>, "int", "", NoFields) >>,
    \* 8: a slice of booleans
    << Fld("Field", <<"/", "a">>, "slice", "bool", NoFields) >>
>>

(* ------------------------------ values -------------------------------- *)
\* a Go map: nil (never created) or a table of entries
NilMap == [nil |-> TRUE, m |-> <<>>]

MkMap(m) == [nil |-> FALSE, m |-> m]

KeyK == <<"k">>

KeyJ == <<"j">>

\* a key that holds the path separator
KeyKJ == <<"k", "/", "j">>

\* the values the caller's structure may hold, per structure type
ValuesOf(t) ==
    CASE t = 1 -> { << <<"x">>, 10, TRUE, <<"x">> >>, << <<>>, 0 - 7, FALSE, <<"x">> >>,
                    << <<"x", "y">>, 0, TRUE, <<>> >> }
      [] t = 2 -> { << <<10, <<"x">>, TRUE>>, 20 >>, << <<0 - 7, <<"x">>, FALSE>>, 0 >>,
                    << <<0, <<>>, TRUE>>, 0 - 7 >> }
      [] t = 3 -> { << sl >> : sl \in { <<>>, << <<"x">> >>, << <<"x">>, <<"y">> >>, << <<"y">>, <<"x">> >> } }
      [] t = 4 -> { << sl >> : sl \in { <<>>, <<10>>, <<10, 0 - 7>> } }
      [] t = 5 -> { << sl >> : sl \in { <<>>, << <<10, <<"x">> >> >>, << <<0 - 7, <<>> >> >> } }
      [] t = 6 -> { << mp >> : mp \in { NilMap, MkMap(<<>>),
                                        MkMap(KeyK :> <<"x">> @@ KeyJ :> <<>>),
                                        MkMap(KeyKJ :> <<"x">>) } }
      [] t = 7 -> { <<3, 10>>, <<0, 0 - 7>> }
      [] t = 8 -> { << sl >> : sl \in { <<>>, <<TRUE>>, <<FALSE, TRUE>> } }

\* the zero value of a field, and of a structure
RECURSIVE ZeroFields(_)
ZeroField(f) ==
    CASE f.kind = "string" -> <<>>
      [] f.kind \in {"int", "int64"} -> 0
      [] f.kind = "bool" -> FALSE
      [] f.kind = "struct" -> ZeroFields(f.fields)
      [] f.kind = "slice" -> <<>>
      [] f.kind = "map" -> NilMap
      [] OTHER -> 0

ZeroFields(fields) == [i \in 1..Len(fields) |-> ZeroField(fields[i])]

(* ------------------------- the store (clientMock) --------------------- *)
\* A node of the tree: etcd.Node without TTL and CreatedIndex.  The tree is
\* kept flat, in creation order: parent is the position of the parent node,
\* 0 for the root, and the children of a node are the nodes naming it as
\* parent, in creation order (etcd.Node.Nodes is only ever appended to).
Node(key, value, dir, index, parent) ==
    [Key |-> key, Value |-> value, Dir |-> dir, ModifiedIndex |-> index, parent |-> parent]

RootNode == [Key |-> <<>>, Value |-> <<>>, Dir |-> TRUE, ModifiedIndex |-> 0, parent |-> 0 - 1]

NotFound == 0 - 1

NodeAt(nodes, n) == IF n = 0 THEN RootNode ELSE nodes[n]

\* node.Nodes, as positions
Children(nodes, p) ==
    LET F[i \in 0..Len(nodes)] ==
            IF i = 0 THEN <<>>
            ELSE IF nodes[i].parent = p THEN Append(F[i - 1], i) ELSE F[i - 1]
    IN  F[Len(nodes)]

\* for _, n := range current.Nodes { if n.Key == key { ...; break } }
FindChild(nodes, p, key) ==
    LET S == { i \in 1..Len(nodes) : nodes[i].parent = p /\ nodes[i].Key = key }
    IN  IF S = {} THEN NotFound ELSE CHOOSE i \in S : \A j \in S : i <= j

Last(s) == s[Len(s)]

(* ------------------------------- state -------------------------------- *)
VARIABLES
    typ,        \* the structure type of the caller's configuration (index in Types)
    config,     \* the caller's structure, read and written through c.config
    client,     \* "none" before NewClient returned a Client, "ok" afterwards
    info,       \* Client.info: path -> [field, version]
    nodes,      \* clientMock.root, flattened
    etcdIndex,  \* clientMock.etcdIndex
    faults,     \* clientMock.createDirErrors, createInOrderErrors, setErrors, getErrors
    sessions,   \* the watch goroutines started by Watch
    change,     \* clientMock.change: the change a notifyChange waits to hand over
    last,       \* the last call made by the caller: its arguments and results
    calls,      \* the number of Save and Load calls made so far
    foreign,    \* the number of writes made by other clients so far
    saved       \* the last Save that returned no error, while the store is as it left it

vars == <<typ, config, client, info, nodes, etcdIndex, faults, sessions, change, last, calls, foreign, saved>>

\* error codes of etcd that alreadyExistsError can look at (*etcd.EtcdError)
EtcdErrors == {"KeyNotFound", "NotFile", "NodeExist", "RaftInternal"}

\* c.createDirErrors[path], c.setErrors[path], ...: "nil" when no error is forced
FaultOf(method, path) ==
    IF \E f \in faults : f.method = method /\ f.path = path
    THEN (CHOOSE f \in faults : f.method = method /\ f.path = path).err
    ELSE "nil"

\* clientMock.createDirsInPath: walk the parts of the path but the first and
\* the last, creating the directories that are missing
RECURSIVE createDirsLoop(_, _, _, _, _, _)
createDirsLoop(ns, idx, parts, i, current, currentPath) ==
    IF i > Len(parts) - 1 THEN [nodes |-> ns, current |-> current]
    ELSE LET cp == currentPath \o <<"/">> \o parts[i]
             f  == FindChild(ns, current, cp)
         IN  IF f # NotFound
             THEN createDirsLoop(ns, idx, parts, i + 1, f, cp)
             ELSE createDirsLoop(Append(ns, Node(cp, <<>>, TRUE, idx, current)),
                                 idx, parts, i + 1, Len(ns) + 1, cp)

createDirsInPath(ns, idx, path) == createDirsLoop(ns, idx, Split(path), 2, 0, RootNode.Key)

\* the result of a call of the mock
Resp(ns, idx, err, node) == [nodes |-> ns, etcdIndex |-> idx, err |-> err, node |-> node]

\* clientMock.CreateDir
MockCreateDir(ns, idx, path) ==
    LET err == FaultOf("CreateDir", path)
        create(d, f) ==
            IF f # NotFound THEN Resp(d.nodes, idx + 1, err, f)
            ELSE Resp(Append(d.nodes, Node(path, <<>>, TRUE, idx + 1, d.current)),
                      idx + 1, err, Len(d.nodes) + 1)
        in(d) == create(d, FindChild(d.nodes, d.current, Last(Split(path))))
    IN  IF err \in EtcdErrors /\ err # "NodeExist" THEN Resp(ns, idx, err, NotFound)
        ELSE in(createDirsInPath(ns, idx + 1, path))

\* clientMock.CreateInOrder
MockCreateInOrder(ns, idx, path, value) ==
    LET err == FaultOf("CreateInOrder", path)
        create(d, cur) ==
            Resp(Append(d.nodes, Node(path \o <<"/">> \o FormatInt(Len(Children(d.nodes, cur))),
                                      value, FALSE, idx + 1, cur)),
                 idx + 1, "nil", Len(d.nodes) + 1)
        at(d, f) == create(d, IF f # NotFound THEN f ELSE d.current)
        in(d) == at(d, FindChild(d.nodes, d.current, path))
    IN  IF err # "nil" THEN Resp(ns, idx, err, NotFound)
        ELSE in(createDirsInPath(ns, idx + 1, path))

\* clientMock.Set
MockSet(ns, idx, path, value) ==
    LET err == FaultOf("Set", path)
        set(d, f) ==
            IF f # NotFound /\ d.nodes[f].Dir
            THEN Resp(d.nodes, idx + 1, "NotFile", NotFound)
            ELSE IF f # NotFound
            THEN Resp([d.nodes EXCEPT ![f].Value = value, ![f].ModifiedIndex = idx + 1],
                      idx + 1, "nil", f)
            ELSE Resp(Append(d.nodes, Node(path, value, FALSE, idx + 1, d.current)),
                      idx + 1, "nil", Len(d.nodes) + 1)
        in(d) == set(d, FindChild(d.nodes, d.current, path))
    IN  IF err # "nil" THEN Resp(ns, idx, err, NotFound)
        ELSE in(createDirsInPath(ns, idx + 1, path))

\* clientMock.Get
RECURSIVE getLoop(_, _, _, _, _)
getLoop(ns, parts, i, current, currentPath) ==
    IF i > Len(parts) THEN current
    ELSE LET next(cp, f) == IF f = NotFound THEN NotFound ELSE getLoop(ns, parts, i + 1, f, cp)
             at(cp) == The({ next(cp, f) : f \in { FindChild(ns, current, cp) } })
         IN  The({ at(cp) : cp \in { currentPath \o <<"/">> \o parts[i] } })

\* a Get that no error of the store reaches
MockGetNoFault(ns, idx, path) ==
    The({ IF n = NotFound THEN Resp(ns, idx, "KeyNotFound", NotFound) ELSE Resp(ns, idx, "nil", n) :
          n \in { The({ getLoop(ns, parts, 2, 0, RootNode.Key) : parts \in { Split(path) } }) } })

MockGet(ns, idx, path) ==
    LET err == FaultOf("Get", path)
        found(n) == IF n = NotFound THEN Resp(ns, idx, "KeyNotFound", NotFound)
                    ELSE Resp(ns, idx, "nil", n)
    IN  IF err # "nil" THEN Resp(ns, idx, err, NotFound)
        ELSE The({ found(n) : n \in { The({ getLoop(ns, parts, 2, 0, RootNode.Key) :
                                               parts \in { Split(path) } }) } })

(* ------------------------------ the client ---------------------------- *)
\* A reflect.Value of a field: where it lives in the caller's structure (the
\* positions of the fields, and of the slice elements, leading to it; the
\* structure itself is <<>>) and its kind.  A location that starts with 0 is
\* memory allocated by the client (reflect.New), not part of the structure.
Ref(loc, kind) == [loc |-> loc, kind |-> kind]

Info(field, version) == [field |-> field, version |-> version]

\* the descriptor of the structure itself
RootFld(t) == Fld("", <<>>, "struct", "", Types[t])

\* c.info[path] = v
Put(inf, path, v) == (path :> v) @@ inf

\* a registration that stops at the structure handed to it
preloadFlat(inf, f, loc, pathSuffix) ==
    Put(inf, IF Len(pathSuffix) = 0 THEN <<"/">> ELSE pathSuffix, Info(Ref(loc, f.kind), 0))

\* Client.preload
RECURSIVE preload(_, _, _, _), preloadFields(_, _, _, _, _)
preload(inf, f, loc, pathSuffix) ==
    LET inf1 == IF f.kind = "struct" THEN preloadFields(inf, f.fields, loc, pathSuffix, 1)
                ELSE inf
    IN  Put(inf1, IF Len(pathSuffix) = 0 THEN <<"/">> ELSE pathSuffix,
            Info(Ref(loc, f.kind), 0))

preloadFields(inf, fields, loc, pathSuffix, i) ==
    IF i > Len(fields) THEN inf
    ELSE IF Len(fields[i].tag) = 0 THEN preloadFields(inf, fields, loc, pathSuffix, i + 1)
    ELSE preloadFields(preload(inf, fields[i], Append(loc, i), pathSuffix \o fields[i].tag),
                       fields, loc, pathSuffix, i + 1)

\* The progress of one Save, Load or watch re-fill: the store, the registry, the
\* remote calls issued so far (with their results) and the error being returned.
Call(method, path, value, err) == [method |-> method, path |-> path, value |-> value, err |-> err]

Run(ns, idx, inf, log, err) == [nodes |-> ns, etcdIndex |-> idx, info |-> inf, log |-> log, err |-> err]

\* one remote call: the store and the log after it, err being what it returned
Called(st, method, path, value, r) ==
    Run(r.nodes, r.etcdIndex, st.info, Append(st.log, Call(method, path, value, r.err)), r.err)

DoCreateDir(st, path) ==
    Called(st, "CreateDir", path, <<>>, MockCreateDir(st.nodes, st.etcdIndex, path))

DoCreateInOrder(st, path, value) ==
    Called(st, "CreateInOrder", path, value, MockCreateInOrder(st.nodes, st.etcdIndex, path, value))

\* a Set whose error is dropped
DoSetIgnored(st, path, value) ==
    [Called(st, "Set", path, value, MockSet(st.nodes, st.etcdIndex, path, value)) EXCEPT !.err = "nil"]

DoSet(st, path, value) ==
    Called(st, "Set", path, value, MockSet(st.nodes, st.etcdIndex, path, value))

\* a test of the error's type that forgets its code
anyEtcdError(err) == err \in EtcdErrors

\* alreadyExistsError
alreadyExistsError(err) == err \in EtcdErrors /\ err = "NodeExist"

\* if _, err := c.etcdClient.CreateDir(path, 0); err != nil && !alreadyExistsError(err)
EnsureDir(st, path) ==
    LET tolerate(st1) == IF st1.err # "nil" /\ ~alreadyExistsError(st1.err) THEN st1
                         ELSE [st1 EXCEPT !.err = "nil"]
    IN  tolerate(DoCreateDir(st, path))

\* item.String() of a slice element that is not a structure
ItemString(kind, v) == IF kind = "string" THEN v ELSE ValueString(kind)

\* the String() of the reflected value, whatever its kind
ScalarTextString(kind, v) == IF kind = "string" THEN v ELSE ValueString(kind)

\* the text written for a scalar field (save, cases String, Int, Int64, Bool)
ScalarText(kind, v) ==
    CASE kind = "string" -> v
      [] kind \in {"int", "int64"} -> FormatInt(v)
      [] kind = "bool" -> FormatBool(v)

\* c.info[path] = info{field: field}, when the field was saved
Registered(st1, path, ref) ==
    IF st1.err # "nil" THEN st1 ELSE [st1 EXCEPT !.info = Put(st1.info, path, Info(ref, 0))]

RECURSIVE save(_, _, _, _, _, _, _), saveField(_, _, _, _, _, _),
          saveMap(_, _, _, _, _), saveItem(_, _, _, _, _, _), saveSlice(_, _, _, _, _, _, _)
\* a save that does not pass over the fields with no tag
RECURSIVE saveUntagged(_, _, _, _, _, _, _)
saveUntagged(st, fields, vals, pathSuffix, loc, i, keys) ==
    IF i > Len(fields) \/ st.err # "nil" THEN st
    ELSE saveUntagged(Registered(saveField(st, fields[i], vals[i], pathSuffix \o fields[i].tag,
                                           Append(loc, i), keys),
                                 pathSuffix \o fields[i].tag, Ref(Append(loc, i), fields[i].kind)),
                      fields, vals, pathSuffix, loc, i + 1, keys)

\* Client.save: the loop over the fields from field i on; keys is the order in
\* which field.MapKeys() returns the keys of a map
save(st, fields, vals, pathSuffix, loc, i, keys) ==
    IF i > Len(fields) \/ st.err # "nil" THEN st
    ELSE IF Len(fields[i].tag) = 0 THEN save(st, fields, vals, pathSuffix, loc, i + 1, keys)
    ELSE save(Registered(saveField(st, fields[i], vals[i], pathSuffix \o fields[i].tag,
                                   Append(loc, i), keys),
                         pathSuffix \o fields[i].tag, Ref(Append(loc, i), fields[i].kind)),
              fields, vals, pathSuffix, loc, i + 1, keys)

\* the switch on field.Kind()
saveField(st, f, v, path, loc, keys) ==
    CASE f.kind = "struct" -> save(st, f.fields, v, path, loc, 1, keys)
      [] f.kind = "map" -> saveMap(EnsureDir(st, path), v, path, keys, 1)
      [] f.kind = "slice" -> saveSlice(EnsureDir(st, path), f, v, path, loc, 1, keys)
      [] f.kind \in {"string", "int", "int64", "bool"} -> DoSet(st, path, ScalarText(f.kind, v))
      [] OTHER -> st

\* for _, key := range field.MapKeys()
saveMap(st, v, path, keys, k) ==
    IF k > Len(keys) \/ st.err # "nil" THEN st
    ELSE saveMap(DoSet(st, path \o <<"/">> \o keys[k], v.m[keys[k]]), v, path, keys, k + 1)

\* an element of a slice of structures: the directory of its index, then its fields
saveItem(st1, f, v, tmpPath, loc, keys) ==
    IF st1.err # "nil" THEN st1 ELSE save(st1, f.fields, v, tmpPath, loc, 1, keys)

\* for i := 0; i < field.Len(); i++
saveSlice(st, f, v, path, loc, k, keys) ==
    IF k > Len(v) \/ st.err # "nil" THEN st
    ELSE IF f.elem = "struct"
    THEN saveSlice(saveItem(EnsureDir(st, path \o <<"/">> \o FormatInt(k - 1)), f, v[k],
                            path \o <<"/">> \o FormatInt(k - 1), Append(loc, k), keys),
                   f, v, path, loc, k + 1, keys)
    ELSE saveSlice(DoCreateInOrder(st, path, ItemString(f.elem, v[k])), f, v, path, loc, k + 1, keys)

\* The progress of one fill: the value of the field, the registry, the error.
Fill(val, inf, err) == [val |-> val, info |-> inf, err |-> err]

\* fillField, case reflect.Map: one entry per child, keyed by the last part of
\* its key
RECURSIVE fillMap(_, _, _, _)
fillMap(ns, kids, k, m) ==
    IF k > Len(kids) THEN m
    ELSE fillMap(ns, kids, k + 1, (Last(Split(ns[kids[k]].Key)) :> ns[kids[k]].Value) @@ m)

\* fillField, case reflect.Slice, elements of kind String, Int, Int64, Bool:
\* the slice is rebuilt from the children, in the order of node.Nodes
RECURSIVE fillScalars(_, _, _, _, _)
fillScalars(ns, elem, kids, k, sl) ==
    IF k > Len(kids) THEN [val |-> sl, err |-> "nil"]
    ELSE LET text == ns[kids[k]].Value
         IN  CASE elem = "string" -> fillScalars(ns, elem, kids, k + 1, Append(sl, text))
               [] elem \in {"int", "int64"} ->
                     IF ParseInt(text).ok
                     THEN fillScalars(ns, elem, kids, k + 1, Append(sl, ParseInt(text).val))
                     ELSE [val |-> sl, err |-> "ParseError"]
               [] elem = "bool" ->
                     IF text = FormatBool(TRUE) THEN fillScalars(ns, elem, kids, k + 1, Append(sl, TRUE))
                     ELSE IF text = FormatBool(FALSE) THEN fillScalars(ns, elem, kids, k + 1, Append(sl, FALSE))
                     ELSE fillScalars(ns, elem, kids, k + 1, sl)
               [] OTHER -> [val |-> sl, err |-> "nil"]

\* position of the first tagged field j of fields with prefix + tag = key, 0 if none
MatchField(fields, prefix, key) ==
    LET S == { j \in 1..Len(fields) : Len(fields[j].tag) # 0 /\ prefix \o fields[j].tag = key }
    IN  IF S = {} THEN 0 ELSE CHOOSE j \in S : \A h \in S : j <= h

\* Client.fillField
RECURSIVE fillField(_, _, _, _, _, _, _), fillStruct(_, _, _, _, _, _, _, _),
          fillStructs(_, _, _, _, _, _, _, _), fillItem(_, _, _, _, _, _, _, _)

\* the parsed text of an integer field, or the error of strconv.ParseInt
Parsed(p, v, inf) == IF p.ok THEN Fill(p.val, inf, "nil") ELSE Fill(v, inf, "ParseError")

\* a flag read as strconv.ParseBool would read it: an error for any other text
FlagStrict(text, v, inf) ==
    IF text = FormatBool(TRUE) THEN Fill(TRUE, inf, "nil")
    ELSE IF text = FormatBool(FALSE) THEN Fill(FALSE, inf, "nil")
    ELSE Fill(v, inf, "ParseError")

\* fillField, case reflect.Bool: "true" sets the field, "false" clears it, any
\* other text leaves it as it is
Flag(text, v, inf) ==
    IF text = FormatBool(TRUE) THEN Fill(TRUE, inf, "nil")
    ELSE IF text = FormatBool(FALSE) THEN Fill(FALSE, inf, "nil")
    ELSE Fill(v, inf, "nil")

\* c.info[node.Key] = info{field: field, version: node.ModifiedIndex}, when
\* the field was filled
Versioned(r, key, ref, index) ==
    IF r.err # "nil" THEN r ELSE Fill(r.val, Put(r.info, key, Info(ref, index)), "nil")

\* the slice of scalars the children gave, and the error if one could not be read
Scalars(s, inf) == Fill(s.val, inf, s.err)

fillField(ns, inf, f, v, loc, n, pathSuffix) ==
    The({ Versioned(r, NodeAt(ns, n).Key, Ref(loc, f.kind), NodeAt(ns, n).ModifiedIndex) : r \in {
        CASE f.kind = "struct" -> fillStruct(ns, inf, f.fields, v, loc, n, pathSuffix, 1)
          [] f.kind = "map" -> Fill(MkMap(fillMap(ns, Children(ns, n), 1, <<>>)), inf, "nil")
          [] f.kind = "slice" /\ f.elem = "struct" ->
                The({ fillStructs(ns, inf, f, <<>>, loc, kids, pathSuffix, 1) :
                      kids \in { Children(ns, n) } })
          [] f.kind = "slice" /\ f.elem # "struct" ->
                Scalars(fillScalars(ns, f.elem, Children(ns, n), 1, <<>>), inf)
          [] f.kind = "string" -> Fill(NodeAt(ns, n).Value, inf, "nil")
          [] f.kind \in {"int", "int64"} -> Parsed(ParseInt(NodeAt(ns, n).Value), v, inf)
          [] f.kind = "bool" -> Flag(NodeAt(ns, n).Value, v, inf)
          [] OTHER -> Fill(v, inf, "nil") } })

\* the structure with field i as fillField left it
Filled(vals, i, r) == Fill([vals EXCEPT ![i] = r.val], r.info, r.err)

\* fillField, case reflect.Struct: every tagged field is filled from the first
\* child whose key is the path of the field
fillStruct(ns, inf, fields, vals, loc, n, pathSuffix, i) ==
    IF i > Len(fields) THEN Fill(vals, inf, "nil")
    ELSE IF Len(fields[i].tag) = 0 THEN fillStruct(ns, inf, fields, vals, loc, n, pathSuffix, i + 1)
    ELSE LET next(st) == IF st.err # "nil" THEN st
                         ELSE fillStruct(ns, st.info, fields, st.val, loc, n, pathSuffix, i + 1)
             from(child) ==
                 IF child = NotFound THEN fillStruct(ns, inf, fields, vals, loc, n, pathSuffix, i + 1)
                 ELSE The({ next(Filled(vals, i, r)) : r \in {
                          fillField(ns, inf, fields[i], vals[i], Append(loc, i), child,
                                    pathSuffix \o fields[i].tag) } })
         IN  The({ from(child) : child \in { FindChild(ns, n, pathSuffix \o fields[i].tag) } })

\* fillField, case reflect.Slice of reflect.Struct: one new structure per child
\* of the node, filled by fillItem and appended
fillStructs(ns, inf, f, sl, loc, kids, pathSuffix, k) ==
    IF k > Len(kids) THEN Fill(sl, inf, "nil")
    ELSE LET next(r) == IF r.err # "nil" THEN Fill(sl, r.info, r.err)
                        ELSE fillStructs(ns, r.info, f, Append(sl, r.val), loc, kids, pathSuffix, k + 1)
         IN  The({ next(r) : r \in {
                 The({ fillItem(ns, inf, f, ZeroFields(f.fields), <<0>> \o Append(loc, k),
                                subitems, prefix, 1) :
                       subitems \in { Children(ns, kids[k]) },
                       prefix \in { pathSuffix \o <<"/">> \o FormatInt(k - 1) } }) } })

\* SubitemLoop: each child of the item fills the first tagged field whose path,
\* built from the position of the item, is the key of the child
fillItem(ns, inf, f, vals, loc, subitems, prefix, s) ==
    IF s > Len(subitems) THEN Fill(vals, inf, "nil")
    ELSE LET next(st) == IF st.err # "nil" THEN st
                         ELSE fillItem(ns, st.info, f, st.val, loc, subitems, prefix, s + 1)
             to(j) ==
                 IF j = 0 THEN fillItem(ns, inf, f, vals, loc, subitems, prefix, s + 1)
                 ELSE The({ next(Filled(vals, j, r)) : r \in {
                          fillField(ns, inf, f.fields[j], vals[j], Append(loc, j), subitems[s],
                                    ns[subitems[s]].Key) } })
         IN  The({ to(j) : j \in { MatchField(f.fields, prefix, ns[subitems[s]].Key) } })

\* The progress of one Load: the structure, the registry, the calls, the error.
LRun(val, inf, log, err) == [val |-> val, info |-> inf, log |-> log, err |-> err]

\* Client.load: the loop over the fields from field i on
RECURSIVE load(_, _, _, _, _, _)
load(ns, idx, st, fields, pathSuffix, i) ==
    IF i > Len(fields) \/ st.err # "nil" THEN st
    ELSE IF Len(fields[i].tag) = 0 THEN load(ns, idx, st, fields, pathSuffix, i + 1)
    ELSE LET logged(err) == Append(st.log, Call("Get", pathSuffix \o fields[i].tag, <<>>, err))
             filled(r) == LRun([st.val EXCEPT ![i] = r.val], r.info, logged("nil"), r.err)
             got(resp) ==
                 IF resp.err # "nil" THEN LRun(st.val, st.info, logged(resp.err), resp.err)
                 ELSE filled(fillField(ns, st.info, fields[i], st.val[i], <<i>>, resp.node,
                                       pathSuffix \o fields[i].tag))
         IN  load(ns, idx, got(MockGet(ns, idx, pathSuffix \o fields[i].tag)),
                  fields, pathSuffix, i + 1)

(* ------------------------------ the calls ----------------------------- *)
\* What is remembered of the last call of the caller: the operation, its
\* argument, the error it returned, the remote calls it issued, and the
\* structure and the store as they were when it started (pre, preNodes) and
\* when it returned (post, postNodes), the registry as it was when it started,
\* the order in which the keys of the map were visited, and the version it
\* returned (Version).
CallRec(op, arg, err, log, pre, post, preNodes, postNodes, preInfo, keys, ret) ==
    [op |-> op, arg |-> arg, err |-> err, log |-> log, pre |-> pre, post |-> post,
     preNodes |-> preNodes, postNodes |-> postNodes, preInfo |-> preInfo, keys |-> keys,
     ret |-> ret]

NoCall == CallRec("none", <<>>, "nil", <<>>, <<>>, <<>>, <<>>, <<>>, <<>>, <<>>, 0)

\* What is remembered of the last Save: whether it returned no error and the
\* store was written by nobody else since (valid), and the structure it saved.
Saved(valid, val) == [valid |-> valid, val |-> val]

\* the arguments NewClient is called with (TestNewClient): a pointer or not, and
\* the kind of what is pointed to, or of the value itself
ConfigArgs ==
    { [ptr |-> TRUE, kind |-> "struct"], [ptr |-> FALSE, kind |-> "struct"],
      [ptr |-> FALSE, kind |-> "int"], [ptr |-> TRUE, kind |-> "slice"] }

\* the permutations of a set, as sequences
RECURSIVE Perms(_)
Perms(S) ==
    IF S = {} THEN { <<>> }
    ELSE UNION { { <<x>> \o p : p \in Perms(S \ {x}) } : x \in S }

\* the orders in which field.MapKeys() may return the keys of the maps of the
\* structure (the structure types hold at most one map, at the top level)
KeyOrders(t, val) ==
    IF t = 6 THEN Perms(DOMAIN val[1].m) ELSE { <<>> }

\* the errors the mock can be told to return (the init functions of TestSave and
\* TestLoad): a method, a path and the error
FaultChoices(t) ==
    LET a   == <<"/", "a">>
        raft(m, p) == [method |-> m, path |-> p, err |-> "RaftInternal"]
        dir(p) == { [method |-> "CreateDir", path |-> p, err |-> e] :
                    e \in {"NodeExist", "RaftInternal", "generic"} }
    IN  CASE t = 1 -> { raft("Set", <<"/", "b">>), raft("Get", <<"/", "b">>) }
          [] t = 2 -> { raft("Set", <<"/", "a", "/", "d">>), raft("Get", a) }
          [] t = 3 -> dir(a) \cup { raft("CreateInOrder", a) }
          [] t = 4 -> dir(a)
          [] t = 5 -> dir(a \o <<"/", "0">>) \cup { raft("Set", a \o <<"/", "0", "/", "b">>) }
          [] t = 6 -> dir(a) \cup { raft("Set", a \o <<"/">> \o KeyK) }
          [] t = 7 -> { raft("Set", <<"/", "b">>), raft("Get", a) }
          [] t = 8 -> dir(a)

\* the errors the mock holds: they are set before the client is used
FaultSets(t) ==
    { F \in SUBSET FaultChoices(t) :
        /\ Cardinality(F) <= MaxFaults
        /\ \A f, g \in F : f.method = g.method /\ f.path = g.path => f = g }

\* what another client of the store may write: a path and a text
ForeignWrites(t) ==
    LET w(p, v) == [path |-> p, value |-> v]
    IN  CASE t = 1 -> { w(<<"/", "a">>, <<"y">>), w(<<"/", "b">>, <<"N", "a", "N">>),
                        w(<<"/", "b">>, <<"0", "7">>), w(<<"/", "d">>, <<"o", "n">>),
                        w(<<"/", "d">>, FormatBool(TRUE)) }
          [] t = 2 -> { w(<<"/", "a", "/", "b">>, <<"N", "a", "N">>), w(<<"/", "a", "/", "b">>, <<"7">>),
                        w(<<"/", "a", "/", "d">>, FormatBool(TRUE)), w(<<"/", "c">>, <<"2", "0">>),
                        w(<<"/", "a", "/", "d">>, <<"o", "n">>) }
          [] t = 3 -> { w(<<"/", "a", "/", "9">>, <<"z">>) }
          [] t = 4 -> { w(<<"/", "a", "/", "0">>, <<"7">>), w(<<"/", "a", "/", "1">>, <<"N", "a", "N">>) }
          [] t = 5 -> { w(<<"/", "a", "/", "0", "/", "b">>, <<"7">>),
                        w(<<"/", "a", "/", "3", "/", "b">>, <<"7">>),
                        w(<<"/", "a", "/", "0", "/", "b">>, <<"N", "a", "N">>) }
          [] t = 6 -> { w(<<"/", "a", "/", "k">>, <<"z">>), w(<<"/", "a", "/", "i">>, <<"z">>) }
          [] t = 7 -> { w(<<"/", "a">>, <<"z">>), w(<<"/", "b">>, <<"7">>) }
          [] t = 8 -> { w(<<"/", "a", "/", "0">>, FormatBool(TRUE)), w(<<"/", "a", "/", "1">>, <<"o", "n">>) }

\* the descriptor of the field at a location of the structure
RECURSIVE FldAt(_, _)
FldAt(f, loc) ==
    IF loc = <<>> THEN f
    ELSE IF f.kind = "struct" THEN FldAt(f.fields[Head(loc)], Tail(loc))
    ELSE FldAt(Fld("", <<>>, "struct", "", f.fields), Tail(loc))

\* the value at a location reached through structures, and its replacement
RECURSIVE GetAt(_, _), SetAt(_, _, _)
GetAt(v, loc) == IF loc = <<>> THEN v ELSE GetAt(v[Head(loc)], Tail(loc))

SetAt(v, loc, nv) ==
    IF loc = <<>> THEN nv ELSE [v EXCEPT ![Head(loc)] = SetAt(v[Head(loc)], Tail(loc), nv)]

\* reflect.Type.Name(): the predeclared types have a name; the structures of
\* Types are anonymous, and slices and maps have no name
TypeName(kind) == IF kind \in {"string", "int", "int64", "bool", "float64"} THEN kind ELSE ""

\* reflect.Value.Addr().Pointer(): a structure and its first field have the same
\* address, and so on through first fields; an element of a slice is in the
\* array of the slice, not in the structure
RECURSIVE StripFirst(_, _)
StripFirst(f, loc) ==
    IF loc = <<>> THEN <<>>
    ELSE LET rest == StripFirst(FldAt(f, <<Head(loc)>>), Tail(loc))
         IN  IF rest = <<>> /\ Head(loc) = 1 /\ f.kind = "struct" THEN <<>>
             ELSE <<Head(loc)>> \o rest

Pointer(t, loc) ==
    IF loc # <<>> /\ Head(loc) = 0
    THEN IF Len(loc) = 1 THEN loc
         ELSE <<0, loc[2]>> \o StripFirst(FldAt(RootFld(t), <<loc[2]>>), Tail(Tail(loc)))
    ELSE StripFirst(RootFld(t), loc)

\* the fields of the structure the caller hands to Watch
WatchLocs(t) ==
    CASE t = 1 -> { <<2>> }
      [] OTHER -> { <<1>> }

\* the arguments of Watch: a pointer to a field of the structure, a pointer to a
\* structure the client does not know, a value that is not a pointer (TestWatch)
WatchArgs(t) ==
    { [ptr |-> TRUE, loc |-> l, kind |-> FldAt(RootFld(t), l).kind] : l \in WatchLocs(t) }
    \cup { [ptr |-> TRUE, loc |-> <<0>>, kind |-> "struct"],
           [ptr |-> FALSE, loc |-> <<0>>, kind |-> "string"] }

\* a scan that stops at the first entry, whatever the reference
ResolveAny(t, inf, arg) == DOMAIN inf

\* the entries of the registry the scan of Watch and Version can stop at
Resolve(t, inf, arg) ==
    { path \in DOMAIN inf :
        /\ Pointer(t, inf[path].field.loc) = Pointer(t, arg.loc)
        /\ TypeName(inf[path].field.kind) = TypeName(arg.kind)
        /\ inf[path].field.kind = arg.kind }

\* a watch session: the path and the field resolved by Watch, the index the
\* store is asked to wait from, whether the Watch call of the mock returned,
\* whether a response waits in the receiver channel, whether the stop channel
\* was closed, whether the goroutine returned, the number of times the
\* callback ran, and whether the goroutine took a response and is inside the
\* case that handles it
Session(path, loc, waitIndex, returned, receiver, stop, done, callbacks, handling) ==
    [path |-> path, loc |-> loc, waitIndex |-> waitIndex, returned |-> returned,
     receiver |-> receiver, stop |-> stop, done |-> done, callbacks |-> callbacks,
     handling |-> handling]

\* a change handed to clientMock.notifyChange: the new value and the new
\* children of the watched node
Change(value, kids) == [Value |-> value, Nodes |-> kids]

Leaf(key, value) == [Key |-> key, Value |-> value]

WatchChanges(t) ==
    CASE t = 1 -> { Change(<<"7">>, <<>>), Change(<<"N", "a", "N">>, <<>>) }
      [] t = 2 -> { Change(<<>>, << Leaf(<<"/", "a", "/", "b">>, <<"7">>) >>) }
      [] t = 3 -> { Change(<<>>, << Leaf(<<"/", "a", "/", "5">>, <<"z">>) >>) }
      [] t = 4 -> { Change(<<>>, << Leaf(<<"/", "a", "/", "0">>, <<"7">>) >>) }
      [] t = 5 -> { Change(<<>>, <<>>) }
      [] t = 6 -> { Change(<<>>, << Leaf(<<"/", "a", "/", "i">>, <<"z">>) >>) }
      [] t = 7 -> { Change(<<"z">>, <<>>) }
      [] t = 8 -> { Change(<<>>, << Leaf(<<"/", "a", "/", "0">>, FormatBool(FALSE)) >>) }

\* current.Nodes = node.Nodes: the former children leave the tree
Detached == 0 - 2

RECURSIVE AppendLeaves(_, _, _, _)
AppendLeaves(ns, kids, k, p) ==
    IF k > Len(kids) THEN ns
    ELSE AppendLeaves(Append(ns, Node(kids[k].Key, kids[k].Value, FALSE, 0, p)), kids, k + 1, p)

ApplyChange(ns, n, c) ==
    LET cut == [i \in 1..Len(ns) |->
                    IF ns[i].parent = n THEN [ns[i] EXCEPT !.parent = Detached]
                    ELSE IF i = n THEN [ns[i] EXCEPT !.Value = c.Value]
                    ELSE ns[i]]
    IN  AppendLeaves(cut, c.Nodes, 1, n)

\* the instances a caller loads into: the zero value of the type, and the zero
\* value with its maps created (make)
FreshValues(t) ==
    IF t = 6 THEN { ZeroFields(Types[t]), << MkMap(<<>>) >> } ELSE { ZeroFields(Types[t]) }

Init ==
    /\ typ \in 1..Len(Types)
    /\ config \in ValuesOf(typ) \cup FreshValues(typ)
    /\ client = "none"
    /\ info = <<>>
    /\ nodes = <<>>
    /\ etcdIndex = 0
    /\ faults \in FaultSets(typ)
    /\ sessions = <<>>
    /\ change = <<>>
    /\ last = NoCall
    /\ calls = 0
    /\ foreign = 0
    /\ saved = Saved(FALSE, <<>>)

\* a check that looks at the pointer and not at what it points to
pointerConfig(arg) == arg.ptr

\* NewClient: configValue.Kind() == reflect.Ptr && configValue.Elem().Kind() == reflect.Struct
validConfig(arg) == arg.ptr /\ arg.kind = "struct"

\* NewClient(machines, config)
NewClient(arg) ==
    /\ client = "none"
    /\ IF ~validConfig(arg)
       THEN /\ last' = CallRec("NewClient", arg, "ErrInvalidConfig", <<>>, config, config, nodes, nodes, info, <<>>, 0)
            /\ UNCHANGED <<client, info>>
       ELSE /\ client' = "ok"
            /\ info' = preload(<<>>, RootFld(typ), <<>>, <<>>)
            /\ last' = CallRec("NewClient", arg, "nil", <<>>, config, config, nodes, nodes, info, <<>>, 0)
    /\ UNCHANGED <<typ, config, nodes, etcdIndex, faults, sessions, calls, foreign, saved, change>>

\* Client.Save
Save(keys) ==
    /\ client = "ok"
    /\ calls < MaxCalls
    /\ calls' = calls + 1
    /\ LET st == save(Run(nodes, etcdIndex, info, <<>>, "nil"), Types[typ], config, <<>>, <<>>, 1, keys)
       IN  /\ st.etcdIndex <= MaxIndex
           /\ nodes' = st.nodes
           /\ etcdIndex' = st.etcdIndex
           /\ info' = st.info
           /\ last' = CallRec("Save", <<>>, st.err, st.log, config, config, nodes, st.nodes, info, keys, 0)
           /\ saved' = IF st.err = "nil" THEN Saved(TRUE, config) ELSE Saved(FALSE, <<>>)
    /\ UNCHANGED <<typ, config, client, faults, sessions, foreign, change>>

\* Client.Load
Load ==
    /\ client = "ok"
    /\ calls < MaxCalls
    /\ calls' = calls + 1
    /\ LET st == load(nodes, etcdIndex, LRun(config, info, <<>>, "nil"), Types[typ], <<>>, 1)
       IN  /\ config' = st.val
           /\ info' = st.info
           /\ last' = CallRec("Load", <<>>, st.err, st.log, config, st.val, nodes, nodes, info, <<>>, 0)
    /\ UNCHANGED <<typ, client, nodes, etcdIndex, faults, sessions, foreign, saved, change>>

\* the caller resets its structure to a fresh instance
CallerAssign(val) ==
    /\ calls > 0
    /\ val # config
    /\ config' = val
    /\ UNCHANGED <<typ, client, info, nodes, etcdIndex, faults, sessions, last, calls, foreign, saved, change>>

\* another client of the store sets a key (clientMock.Set)
ForeignSet(w) ==
    /\ etcdIndex < MaxIndex
    /\ foreign < MaxForeign
    /\ LET r == MockSet(nodes, etcdIndex, w.path, w.value)
       IN  /\ r.err = "nil"
           /\ nodes' = r.nodes
           /\ etcdIndex' = r.etcdIndex
    /\ saved' = Saved(FALSE, <<>>)
    /\ foreign' = foreign + 1
    /\ UNCHANGED <<typ, config, client, info, faults, sessions, last, calls, change>>

\* Client.Watch, up to the start of the two goroutines
Watch(arg) ==
    /\ client = "ok"
    /\ calls < MaxCalls
    /\ calls' = calls + 1
    /\ IF ~arg.ptr
       THEN /\ last' = CallRec("Watch", arg, "ErrFieldNotAddr", <<>>, config, config, nodes, nodes, info, <<>>, 0)
            /\ UNCHANGED sessions
       ELSE IF Resolve(typ, info, arg) = {}
       THEN /\ last' = CallRec("Watch", arg, "ErrFieldNotMapped", <<>>, config, config, nodes, nodes, info, <<>>, 0)
            /\ UNCHANGED sessions
       ELSE \E path \in Resolve(typ, info, arg) :
            /\ sessions' = Append(sessions, Session(path, arg.loc, 0, FALSE, FALSE, FALSE, FALSE, 0, FALSE))
            /\ last' = CallRec("Watch", arg, "nil", <<>>, config, config, nodes, nodes, info, <<>>, 0)
    /\ UNCHANGED <<typ, config, client, info, nodes, etcdIndex, faults, foreign, saved, change>>

\* clientMock.notifyChange, called by the writer of a watched node: the index
\* moves and the change waits on c.change for a Watch call of the mock
notifyChange(c) ==
    /\ sessions # <<>>
    /\ change = <<>>
    /\ etcdIndex < MaxIndex
    /\ etcdIndex' = etcdIndex + 1
    /\ change' = <<c>>
    /\ UNCHANGED <<typ, config, client, info, nodes, faults, sessions, last, calls, foreign, saved>>

\* clientMock.Watch, case node := <-c.change: the watched node takes the value
\* and the children of the change, the response is sent and the call returns
MockWatch(s) ==
    /\ ~sessions[s].returned
    /\ change # <<>>
    /\ change' = <<>>
    /\ sessions' = [sessions EXCEPT ![s].returned = TRUE, ![s].receiver = TRUE]
    /\ saved' = Saved(FALSE, <<>>)
    /\ UNCHANGED <<typ, config, client, info, etcdIndex, faults, last, calls, foreign>>
    /\ \E parts \in { Split(sessions[s].path) } :
       \E n \in { getLoop(nodes, parts, 2, 0, RootNode.Key) } :
           /\ n # NotFound /\ n # 0
           /\ nodes' = ApplyChange(nodes, n, Head(change))

\* clientMock.Watch returns with no notification: the path is not in the store
\* (EcodeKeyNotFound), or the select takes case <-stop
MockWatchReturn(s) ==
    /\ ~sessions[s].returned
    /\ sessions' = [sessions EXCEPT ![s].returned = TRUE]
    /\ UNCHANGED <<typ, config, client, info, nodes, etcdIndex, faults, change, last, calls, foreign, saved>>
    /\ \/ sessions[s].stop
       \/ \E parts \in { Split(sessions[s].path) } :
              getLoop(nodes, parts, 2, 0, RootNode.Key) = NotFound

\* the goroutine of Client.Watch, case response := <-receiver
WatchReceive(s) ==
    /\ sessions[s].receiver /\ ~sessions[s].done
    /\ UNCHANGED <<typ, client, nodes, etcdIndex, faults, change, last, calls, foreign, saved>>
    /\ \E resp \in { MockGet(nodes, etcdIndex, sessions[s].path) } :
           IF resp.err # "nil"
           THEN /\ sessions' = [sessions EXCEPT ![s].receiver = FALSE, ![s].handling = FALSE]
                /\ UNCHANGED <<config, info>>
           ELSE /\ sessions' = [sessions EXCEPT ![s].receiver = FALSE, ![s].handling = FALSE,
                                                 ![s].callbacks = @ + 1]
                /\ \E f \in { FldAt(RootFld(typ), sessions[s].loc) },
                      v \in { GetAt(config, sessions[s].loc) } :
                       \E r \in { fillField(nodes, info, f, v, sessions[s].loc, resp.node,
                                             sessions[s].path) } :
                           /\ config' = SetAt(config, sessions[s].loc, r.val)
                           /\ info' = r.info

\* the caller closes the channel returned by Watch
CloseStop(s) ==
    /\ ~sessions[s].stop
    /\ sessions' = [sessions EXCEPT ![s].stop = TRUE]
    /\ UNCHANGED <<typ, config, client, info, nodes, etcdIndex, faults, last, calls, foreign, saved, change>>

\* a goroutine that does not look at the stop channel
WatchStopIgnored(s) ==
    /\ sessions[s].stop /\ ~sessions[s].done
    /\ UNCHANGED vars

\* the goroutine of Client.Watch, case <-stop
WatchStop(s) ==
    /\ sessions[s].stop /\ ~sessions[s].done
    /\ sessions' = [sessions EXCEPT ![s].done = TRUE]
    /\ UNCHANGED <<typ, config, client, info, nodes, etcdIndex, faults, last, calls, foreign, saved, change>>

\* a caller that saves and loads, and another writer of the store
Next ==
    \/ \E arg \in ConfigArgs : NewClient(arg)
    \/ \E keys \in KeyOrders(typ, config) : Save(keys)
    \/ Load
    \/ \E val \in FreshValues(typ) : CallerAssign(val)
    \/ \E w \in ForeignWrites(typ) : ForeignSet(w)

Spec == Init /\ [][Next]_vars

\* the references the caller hands to Version: to the structure, to each of its
\* fields and to the fields of its nested structures, to a structure the client
\* does not know, and a value that is not a pointer
RECURSIVE FieldLocs(_, _)
FieldLocs(fields, loc) ==
    UNION { { Append(loc, i) } \cup
            (IF fields[i].kind = "struct" THEN FieldLocs(fields[i].fields, Append(loc, i)) ELSE {}) :
            i \in 1..Len(fields) }

VersionArgs(t) ==
    { [ptr |-> TRUE, loc |-> l, kind |-> FldAt(RootFld(t), l).kind] :
        l \in { <<>> } \cup FieldLocs(Types[t], <<>>) }
    \cup { [ptr |-> TRUE, loc |-> <<0>>, kind |-> "struct"],
           [ptr |-> FALSE, loc |-> <<0>>, kind |-> "string"] }

\* Client.Version
Version(arg) ==
    /\ client = "ok"
    /\ IF ~arg.ptr
       THEN last' = CallRec("Version", arg, "ErrFieldNotAddr", <<>>, <<>>, <<>>, <<>>, <<>>, info, <<>>, 0)
       ELSE IF Resolve(typ, info, arg) = {}
       THEN last' = CallRec("Version", arg, "ErrFieldNotMapped", <<>>, <<>>, <<>>, <<>>, <<>>, info, <<>>, 0)
       ELSE \E path \in Resolve(typ, info, arg) :
            last' = CallRec("Version", arg, "nil", <<>>, <<>>, <<>>, <<>>, <<>>, info, <<>>,
                            info[path].version)
    /\ UNCHANGED <<typ, config, client, info, nodes, etcdIndex, faults, sessions, change, calls, foreign, saved>>

\* a caller that saves, loads and watches, and the goroutines of its watches
WatchNext ==
    \/ \E arg \in ConfigArgs : NewClient(arg)
    \/ \E keys \in KeyOrders(typ, config) : Save(keys)
    \/ Load
    \/ \E arg \in WatchArgs(typ) : Watch(arg)
    \/ \E c \in WatchChanges(typ) : notifyChange(c)
    \/ \E s \in 1..Len(sessions) : MockWatch(s)
    \/ \E s \in 1..Len(sessions) : MockWatchReturn(s)
    \/ \E s \in 1..Len(sessions) : WatchReceive(s)
    \/ \E s \in 1..Len(sessions) : CloseStop(s)
    \/ \E s \in 1..Len(sessions) : WatchStop(s)

WatchSpec == Init /\ [][WatchNext]_vars

\* a caller that saves, loads, asks for versions and starts watches, and
\* another writer of the store
VersionNext ==
    \/ \E arg \in ConfigArgs : NewClient(arg)
    \/ \E keys \in KeyOrders(typ, config) : Save(keys)
    \/ Load
    \/ \E w \in ForeignWrites(typ) : ForeignSet(w)
    \/ \E arg \in WatchArgs(typ) : Watch(arg)
    \/ \E arg \in VersionArgs(typ) : Version(arg)

\* the mock is told to return no error
NoFaultInit == Init /\ faults = {}

VersionSpec == NoFaultInit /\ [][VersionNext]_vars

\* the two goroutines of a session are scheduled: the select of Client.Watch,
\* and the Watch call of the mock, take a case when one stays ready
Fairness ==
    \A s \in 1..MaxCalls :
        /\ WF_vars(s \in DOMAIN sessions /\ (WatchReceive(s) \/ WatchStop(s)))
        /\ WF_vars(s \in DOMAIN sessions /\ (MockWatch(s) \/ MockWatchReturn(s)))

FairWatchSpec == NoFaultInit /\ [][WatchNext]_vars /\ Fairness

\* The calls of the client and the handlers of its sessions as intervals: the
\* caller enters a method and the method takes effect when it returns; a
\* goroutine takes a response and its handler takes effect (Get, fillField,
\* callback) when it ends.
CallerOps == {"Save", "Load", "Watch", "Version"}

\* the caller is inside a method of the client
Entered(op) == last.op = "entered" /\ last.arg = op

\* the caller calls a method of the client: nothing is waited for on entry
Enter(op) ==
    /\ client = "ok" /\ last.op # "entered"
    /\ last' = CallRec("entered", op, "nil", <<>>, <<>>, <<>>, <<>>, <<>>, info, <<>>, 0)
    /\ UNCHANGED <<typ, config, client, info, nodes, etcdIndex, faults, sessions, change, calls,
                   foreign, saved>>

\* a goroutine that takes a response only when nobody else is inside code that
\* uses the registry
HandlerEnterLocked(s) ==
    /\ sessions[s].receiver /\ ~sessions[s].done /\ ~sessions[s].handling
    /\ last.op # "entered" /\ \A o \in DOMAIN sessions : ~sessions[o].handling
    /\ sessions' = [sessions EXCEPT ![s].handling = TRUE]
    /\ UNCHANGED <<typ, config, client, info, nodes, etcdIndex, faults, change, last, calls,
                   foreign, saved>>

\* the goroutine of Client.Watch, case response := <-receiver: the response is
\* taken and the handler begins
HandlerEnter(s) ==
    /\ sessions[s].receiver /\ ~sessions[s].done /\ ~sessions[s].handling
    /\ sessions' = [sessions EXCEPT ![s].handling = TRUE]
    /\ UNCHANGED <<typ, config, client, info, nodes, etcdIndex, faults, change, last, calls,
                   foreign, saved>>

\* the caller, the store and the goroutines of the sessions nobody cancels,
\* step by step
RaceNext ==
    \/ \E arg \in ConfigArgs : NewClient(arg)
    \/ \E op \in CallerOps : Enter(op)
    \/ \E keys \in KeyOrders(typ, config) : Entered("Save") /\ Save(keys)
    \/ Entered("Load") /\ Load
    \/ \E arg \in WatchArgs(typ) : Entered("Watch") /\ Watch(arg)
    \/ \E arg \in VersionArgs(typ) : Entered("Version") /\ Version(arg)
    \/ \E c \in WatchChanges(typ) : notifyChange(c)
    \/ \E s \in 1..Len(sessions) : MockWatch(s)
    \/ \E s \in 1..Len(sessions) : HandlerEnter(s)
    \/ \E s \in 1..Len(sessions) : sessions[s].handling /\ WatchReceive(s)

RaceSpec == NoFaultInit /\ [][RaceNext]_vars

\* The structure itself handed to Watch, over a store that serves its root: the
\* registry holds the structure under "/", the store returns its root
\* directory for that path and notifies a watch of it of a write beneath.
RootArg == [ptr |-> TRUE, loc |-> <<>>, kind |-> "struct"]

\* get("/", sorted, recursive): the root directory and the tree beneath it
GetRoot(ns, idx) == Resp(ns, idx, "nil", 0)

\* another client sets a leaf; the watch calls waiting on "/" each deliver
\* their one notification and return
NotifiedSet(w) ==
    /\ etcdIndex < MaxIndex
    /\ foreign < MaxForeign
    /\ \E r \in { MockSet(nodes, etcdIndex, w.path, w.value) } :
           /\ r.err = "nil"
           /\ nodes' = r.nodes
           /\ etcdIndex' = r.etcdIndex
    /\ saved' = Saved(FALSE, <<>>)
    /\ foreign' = foreign + 1
    /\ sessions' = [s \in 1..Len(sessions) |->
                        IF sessions[s].path = <<"/">> /\ ~sessions[s].returned /\ ~sessions[s].stop
                        THEN [sessions[s] EXCEPT !.receiver = TRUE, !.returned = TRUE]
                        ELSE sessions[s]]
    /\ UNCHANGED <<typ, config, client, info, faults, last, calls, change>>

\* the goroutine of Client.Watch for a session on "/", case response :=
\* <-receiver: the Get of "/" is answered with the root directory
RootReceive(s) ==
    /\ sessions[s].path = <<"/">>
    /\ sessions[s].receiver /\ ~sessions[s].done
    /\ UNCHANGED <<typ, client, nodes, etcdIndex, faults, change, last, calls, foreign, saved>>
    /\ \E resp \in { GetRoot(nodes, etcdIndex) } :
           /\ sessions' = [sessions EXCEPT ![s].receiver = FALSE, ![s].handling = FALSE,
                                            ![s].callbacks = @ + 1]
           /\ \E f \in { FldAt(RootFld(typ), sessions[s].loc) },
                 v \in { GetAt(config, sessions[s].loc) } :
                  \E r \in { fillField(nodes, info, f, v, sessions[s].loc, resp.node,
                                        sessions[s].path) } :
                      /\ config' = SetAt(config, sessions[s].loc, r.val)
                      /\ info' = r.info

RootWatchNext ==
    \/ \E arg \in ConfigArgs : NewClient(arg)
    \/ \E keys \in KeyOrders(typ, config) : Save(keys)
    \/ Load
    \/ Watch(RootArg)
    \/ \E w \in ForeignWrites(typ) : NotifiedSet(w)
    \/ \E s \in 1..Len(sessions) : RootReceive(s)

RootWatchSpec == NoFaultInit /\ [][RootWatchNext]_vars

(* ------------------------------ properties ---------------------------- *)
ScalarKinds == {"string", "int", "int64", "bool"}

Tagged(f) == Len(f.tag) # 0

\* every tagged field of the structure is a scalar, or a structure of which
\* every tagged field is
RECURSIVE AllScalar(_)
AllScalar(fields) ==
    \A i \in 1..Len(fields) :
        Tagged(fields[i]) =>
            \/ fields[i].kind \in ScalarKinds
            \/ fields[i].kind = "struct" /\ AllScalar(fields[i].fields)

\* two values of a structure have the same tagged scalars
RECURSIVE SameTagged(_, _, _)
SameTagged(fields, a, b) ==
    \A i \in 1..Len(fields) :
        Tagged(fields[i]) =>
            IF fields[i].kind = "struct" THEN SameTagged(fields[i].fields, a[i], b[i])
            ELSE a[i] = b[i]

\* the last call is a Load that follows a Save which returned no error, nobody
\* else having written to the store in between
LoadAfterSave == last.op = "Load" /\ saved.valid

\* the mock is not told to fail a read
ReadsAnswered == \A f \in faults : f.method # "Get"

\* C1: for a structure whose tagged fields are all scalars (here also scalars
\* of tagged nested structures), a Save followed by a Load into a zero-valued
\* instance, with no other writer and a store that answers the reads, returns
\* no error and every tagged field has the value that was saved.
C1_RoundTripScalars ==
    (LoadAfterSave /\ ReadsAnswered /\ AllScalar(Types[typ]) /\ last.pre = ZeroFields(Types[typ]))
    => /\ last.err = "nil"
       /\ SameTagged(Types[typ], last.post, saved.val)

\* a Load into a zero instance brought back a negative integer that was saved
C1_Witness ==
    /\ LoadAfterSave /\ typ = 1 /\ last.pre = ZeroFields(Types[typ])
    /\ saved.val[2] = 0 - 7 /\ last.post[2] = 0 - 7
    /\ saved.val # last.pre
    /\ last.err = "nil"

\* C10: NewClient returns ErrInvalidConfig and no client when the configuration
\* is not a pointer to a structure (a structure by value, a value that is no
\* structure, a pointer to something else), and a client and no error when it
\* is a pointer to a structure.
C10_NewClientConfig ==
    last.op = "NewClient" =>
        IF last.arg.ptr /\ last.arg.kind = "struct"
        THEN last.err = "nil" /\ client = "ok" /\ DOMAIN info # {}
        ELSE last.err = "ErrInvalidConfig" /\ client = "none" /\ DOMAIN info = {}

\* NewClient was handed a pointer to a slice and refused it
C10_Witness ==
    /\ last.op = "NewClient" /\ last.arg.ptr /\ last.arg.kind = "slice"
    /\ last.err = "ErrInvalidConfig" /\ client = "none"

\* the base-10 text of the integers the structures hold, written out
Decimal(v) ==
    CASE v = 0 -> <<"0">>
      [] v = 7 -> <<"7">>
      [] v = 10 -> <<"1", "0">>
      [] v = 20 -> <<"2", "0">>
      [] v = 0 - 7 -> <<"-", "7">>

\* the text a scalar is to be stored as
Canonical(kind, v) ==
    CASE kind = "string" -> v
      [] kind \in {"int", "int64"} -> Decimal(v)
      [] kind = "bool" -> IF v THEN <<"t", "r", "u", "e">> ELSE <<"f", "a", "l", "s", "e">>

\* the tagged scalar fields of a structure, at any depth of tagged nested
\* structures, from field i on: the tags from the top down to the field, and
\* the value held
RECURSIVE ScalarLeaves(_, _, _, _)
ScalarLeaves(fields, vals, tags, i) ==
    IF i > Len(fields) THEN <<>>
    ELSE LET here == IF ~Tagged(fields[i]) THEN <<>>
                     ELSE IF fields[i].kind = "struct"
                          THEN ScalarLeaves(fields[i].fields, vals[i], Append(tags, fields[i].tag), 1)
                     ELSE IF fields[i].kind \in ScalarKinds
                          THEN << [tags |-> Append(tags, fields[i].tag), kind |-> fields[i].kind,
                                   val |-> vals[i]] >>
                     ELSE <<>>
         IN  here \o ScalarLeaves(fields, vals, tags, i + 1)

\* the fragments put one after the other, nothing in between
RECURSIVE Concat(_)
Concat(tags) == IF tags = <<>> THEN <<>> ELSE Head(tags) \o Concat(Tail(tags))

\* the calls of a log that set the leaf at a path
SetsAt(log, path) == { k \in 1..Len(log) : log[k].method = "Set" /\ log[k].path = path }

\* C3: a Save that returns no error has issued, for each tagged scalar field at
\* any structure nesting depth, exactly one Set, at the path made of the tags of
\* the enclosing structures and of the field with nothing put in between, with
\* the text itself, the base-10 digits of the integer, or "true" / "false".
C3_SaveScalarLeaves ==
    (last.op = "Save" /\ last.err = "nil") =>
        LET leaves == ScalarLeaves(Types[typ], last.pre, <<>>, 1)
        IN  \A n \in 1..Len(leaves) :
                /\ Cardinality(SetsAt(last.log, Concat(leaves[n].tags))) = 1
                /\ \A k \in SetsAt(last.log, Concat(leaves[n].tags)) :
                       /\ last.log[k].value = Canonical(leaves[n].kind, leaves[n].val)
                       /\ last.log[k].err = "nil"

\* a Save wrote the negative integer and the flag of a nested structure, and
\* a 64-bit integer beside it
C3_Witness ==
    /\ last.op = "Save" /\ last.err = "nil" /\ typ = 2
    /\ last.pre = << <<0 - 7, <<"x">>, FALSE>>, 0 >>
    /\ \E k \in 1..Len(last.log) :
           /\ last.log[k].method = "Set"
           /\ last.log[k].path = <<"/", "a", "/", "b">>
           /\ last.log[k].value = <<"-", "7">>
    /\ Len(ScalarLeaves(Types[typ], last.pre, <<>>, 1)) = 3

\* a remote write that failed, the already-exists answer to CreateDir apart
Failing(call) ==
    call.err # "nil" /\ ~(call.method = "CreateDir" /\ call.err = "NodeExist")

\* the store holds what a write put there
Written(ns, call) ==
    \E i \in 1..Len(ns) :
        /\ ns[i].parent # Detached
        /\ CASE call.method = "Set" ->
                    ns[i].Key = call.path /\ ~ns[i].Dir /\ ns[i].Value = call.value
             [] call.method = "CreateDir" -> ns[i].Key = call.path /\ ns[i].Dir
             [] call.method = "CreateInOrder" ->
                    /\ ~ns[i].Dir /\ ns[i].Value = call.value
                    /\ Len(ns[i].Key) > Len(call.path)
                    /\ SubSeq(ns[i].Key, 1, Len(call.path)) = call.path

\* C7: when a remote write of Save fails (Set, CreateInOrder, or CreateDir with
\* an error other than already-exists), Save returns that error, the failing
\* call is the last one it issued (nothing after it, no second try), and what
\* the earlier calls wrote is still in the store.
C7_SaveFailsFast ==
    last.op = "Save" =>
        /\ \A k \in 1..Len(last.log) :
               Failing(last.log[k]) => k = Len(last.log) /\ last.err = last.log[k].err
        /\ last.err # "nil" =>
               /\ Len(last.log) > 0 /\ Failing(Last(last.log))
               /\ \A k \in 1..(Len(last.log) - 1) : Written(last.postNodes, last.log[k])

\* a Save wrote its first field, failed on the second and stopped there
C7_Witness ==
    /\ last.op = "Save" /\ typ = 1 /\ last.err = "RaftInternal"
    /\ Len(last.log) = 2
    /\ last.log[1].method = "Set" /\ last.log[1].err = "nil"
    /\ last.log[2].method = "Set" /\ last.log[2].err = "RaftInternal"
    /\ Written(last.postNodes, last.log[1]) /\ ~Written(last.preNodes, last.log[1])

\* the number of children Save has to write under a directory it creates: the
\* elements of a slice of scalars, the keys of a map, the tagged fields of an
\* element of a slice of structures
Kids(t, val, path) ==
    CASE t \in {3, 4, 8} -> Len(val[1])
      [] t = 5 -> 1
      [] t = 6 -> Cardinality(DOMAIN val[1].m)
      [] OTHER -> 0

\* the calls issued after the k-th one that write below its path
WritesBelow(log, k) ==
    { j \in (k + 1)..Len(log) :
        /\ log[j].err = "nil"
        /\ \/ log[j].method = "CreateInOrder" /\ log[j].path = log[k].path
           \/ /\ log[j].method = "Set"
              /\ Len(log[j].path) > Len(log[k].path) + 1
              /\ SubSeq(log[j].path, 1, Len(log[k].path) + 1) = log[k].path \o <<"/">> }

\* C8: a CreateDir (for a map, a slice, or an element of a slice of structures)
\* answered with the store's already-exists error counts as done: Save goes on,
\* writes every child below that path, and returns no error when nothing else
\* fails.  A CreateDir answered with another store error, or with an error that
\* is no store error, ends Save with that error.
C8_CreateDirAlreadyExists ==
    last.op = "Save" =>
        \A k \in 1..Len(last.log) :
            last.log[k].method = "CreateDir" =>
                /\ last.log[k].err = "NodeExist" =>
                       /\ (\A j \in 1..Len(last.log) : ~Failing(last.log[j])) => last.err = "nil"
                       /\ last.err = "nil" =>
                              Cardinality(WritesBelow(last.log, k)) = Kids(typ, last.pre, last.log[k].path)
                /\ last.log[k].err \notin {"nil", "NodeExist"} =>
                       last.err = last.log[k].err /\ k = Len(last.log)

\* the directory of a map was answered with already-exists and Save wrote the
\* two entries of the map
C8_Witness ==
    /\ last.op = "Save" /\ typ = 6 /\ last.err = "nil"
    /\ Len(last.log) = 3
    /\ last.log[1].method = "CreateDir" /\ last.log[1].err = "NodeExist"
    /\ Cardinality(WritesBelow(last.log, 1)) = 2

\* a text that is a base-10 integer: a sign or none, then digits and nothing else
IsDecimalText(s) ==
    LET body == IF s # <<>> /\ s[1] \in {"+", "-"} THEN Tail(s) ELSE s
    IN  /\ body # <<>>
        /\ \A i \in 1..Len(body) : body[i] \in {"0", "1", "2", "3", "4", "5", "6", "7", "8", "9"}

IntKinds == {"int", "int64"}

\* the store holds, at the node of a tagged field or below it, a text that is no
\* integer where an integer field is mapped: the field itself, an element of
\* a slice of integers, an integer field of a nested structure
BadIntUnder(ns, n, f, path) ==
    CASE f.kind \in IntKinds -> ~IsDecimalText(ns[n].Value)
      [] f.kind = "slice" /\ f.elem \in IntKinds ->
            \E c \in 1..Len(ns) : ns[c].parent = n /\ ~IsDecimalText(ns[c].Value)
      [] f.kind = "struct" ->
            \E j \in 1..Len(f.fields) :
                /\ Tagged(f.fields[j]) /\ f.fields[j].kind \in IntKinds
                /\ FindChild(ns, n, path \o f.fields[j].tag) # NotFound
                /\ ~IsDecimalText(ns[FindChild(ns, n, path \o f.fields[j].tag)].Value)
      [] OTHER -> FALSE

\* the Load fetched field i
Fetched(i) ==
    \E k \in 1..Len(last.log) :
        /\ last.log[k].method = "Get" /\ last.log[k].path = Types[typ][i].tag
        /\ last.log[k].err = "nil"

\* C9: when Load fetches a tagged field and the store holds there a text that
\* is no base-10 integer where an integer is mapped (the field, an element of
\* a slice of integers, a field of a nested structure), Load returns a decoding
\* error, the fetch of that field is the last call it issued, and the tagged
\* fields after it keep the values they had.
C9_LoadDecodingError ==
    last.op = "Load" =>
        \A i \in 1..Len(Types[typ]) :
            ( /\ Tagged(Types[typ][i]) /\ Fetched(i)
              /\ BadIntUnder(last.preNodes,
                             getLoop(last.preNodes, Split(Types[typ][i].tag), 2, 0, RootNode.Key),
                             Types[typ][i], Types[typ][i].tag) )
            => /\ last.err = "ParseError"
               /\ Last(last.log).path = Types[typ][i].tag
               /\ \A j \in (i + 1)..Len(Types[typ]) :
                      Tagged(Types[typ][j]) =>
                          /\ last.post[j] = last.pre[j]
                          /\ \A k \in 1..Len(last.log) : last.log[k].path # Types[typ][j].tag

\* a Load read the first field, met "NaN" at the integer and left the flag
\* after it alone, though the store holds "true" for it
C9_Witness ==
    /\ last.op = "Load" /\ typ = 1 /\ last.err = "ParseError"
    /\ last.pre = ZeroFields(Types[typ])
    /\ last.post[1] = <<"x">> /\ last.post[3] = FALSE
    /\ \E n \in 1..Len(nodes) : nodes[n].Key = <<"/", "b">> /\ nodes[n].Value = <<"N", "a", "N">>
    /\ \E n \in 1..Len(nodes) : nodes[n].Key = <<"/", "d">> /\ nodes[n].Value = <<"t", "r", "u", "e">>

\* the node the store returns for a path, NotFound if it has none
Lookup(ns, path) == getLoop(ns, Split(path), 2, 0, RootNode.Key)

\* C4 (as the specification states it): saving a tagged slice of N scalars into
\* a store with no node at its path issues one CreateDir at the path and then N
\* CreateInOrder at the path, in the order of the elements, and the store then
\* holds N leaves under the path, the k-th carrying the k-th element.
C4_SaveSliceOfScalars ==
    ( /\ last.op = "Save" /\ last.err = "nil"
      /\ Types[typ][1].kind = "slice" /\ Types[typ][1].elem \in ScalarKinds
      /\ Lookup(last.preNodes, Types[typ][1].tag) = NotFound )
    => LET f    == Types[typ][1]
           v    == last.pre[1]
           kids == Children(last.postNodes, Lookup(last.postNodes, f.tag))
       IN  /\ Len(last.log) = Len(v) + 1
           /\ last.log[1].method = "CreateDir" /\ last.log[1].path = f.tag
           /\ \A k \in 1..Len(v) :
                  /\ last.log[k + 1].method = "CreateInOrder"
                  /\ last.log[k + 1].path = f.tag
                  /\ last.log[k + 1].value = Canonical(f.elem, v[k])
           /\ Len(kids) = Len(v)
           /\ \A k \in 1..Len(v) :
                  /\ ~last.postNodes[kids[k]].Dir
                  /\ last.postNodes[kids[k]].Value = Canonical(f.elem, v[k])

\* C5 (as the specification states it): for a tagged map of text to text, a
\* Save followed by a Load into an instance whose map is created and empty, the
\* store being written by nobody else, yields a map with the keys that were
\* saved and, for every key, the value that was saved.
C5_RoundTripMap ==
    ( /\ LoadAfterSave /\ ReadsAnswered /\ foreign = 0
      /\ Types[typ][1].kind = "map"
      /\ last.pre[1] = MkMap(<<>>) )
    => /\ last.err = "nil"
       /\ DOMAIN last.post[1].m = DOMAIN saved.val[1].m
       /\ \A key \in DOMAIN saved.val[1].m : last.post[1].m[key] = saved.val[1].m[key]

\* C6 (as the specification states it): a Load that fetches a tagged map field
\* whose map is nil returns ErrNotInitialized and leaves the map nil.
C6_LoadNilMap ==
    ( /\ last.op = "Load" /\ Types[typ][1].kind = "map"
      /\ last.pre[1].nil /\ Fetched(1) )
    => last.err = "ErrNotInitialized" /\ last.post[1].nil

\* two values of a structure hold the same in their fields with no tag, at any
\* depth of tagged nested structures
RECURSIVE SameUntagged(_, _, _)
SameUntagged(fields, a, b) ==
    \A i \in 1..Len(fields) :
        IF ~Tagged(fields[i]) THEN a[i] = b[i]
        ELSE fields[i].kind = "struct" => SameUntagged(fields[i].fields, a[i], b[i])

\* the same, and in the elements of tagged slices of structures too, each
\* element against the element at its position
RECURSIVE SameUntaggedDeep(_, _, _)
SameUntaggedDeep(fields, a, b) ==
    \A i \in 1..Len(fields) :
        IF ~Tagged(fields[i]) THEN a[i] = b[i]
        ELSE /\ fields[i].kind = "struct" => SameUntaggedDeep(fields[i].fields, a[i], b[i])
             /\ (fields[i].kind = "slice" /\ fields[i].elem = "struct") =>
                    \A k \in 1..Len(a[i]) :
                        k <= Len(b[i]) => SameUntaggedDeep(fields[i].fields, a[i][k], b[i][k])

\* a value of a structure with its fields with no tag set to zero, those of the
\* elements of its slices of structures included
RECURSIVE ZeroUntagged(_, _)
ZeroUntagged(fields, vals) ==
    [i \in 1..Len(fields) |->
        IF ~Tagged(fields[i]) THEN ZeroField(fields[i])
        ELSE IF fields[i].kind = "struct" THEN ZeroUntagged(fields[i].fields, vals[i])
        ELSE IF fields[i].kind = "slice" /\ fields[i].elem = "struct"
             THEN [k \in 1..Len(vals[i]) |-> ZeroUntagged(fields[i].fields, vals[i][k])]
        ELSE vals[i]]

\* the remote calls of the last Save are those of a Save of the same structure
\* with nothing in its fields with no tag: no path and no value comes from them
SaveIgnoresUntagged ==
    last.op = "Save" =>
        last.log = save(Run(last.preNodes, 0, last.preInfo, <<>>, "nil"), Types[typ],
                        ZeroUntagged(Types[typ], last.pre), <<>>, <<>>, 1, last.keys).log

\* a location in the caller's structure, or in an element built by a fill,
\* as a location in the structure type
TypeLoc(loc) == IF loc # <<>> /\ Head(loc) = 0 THEN Tail(loc) ELSE loc

\* every entry of the registry is the structure itself or a tagged field
RegistryTagged ==
    \A path \in DOMAIN info :
        LET loc == TypeLoc(info[path].field.loc)
        IN  loc = <<>> \/ Tagged(FldAt(RootFld(typ), loc))

\* a step that changes a tagged slice of structures leaves, in each of its
\* elements, the zero value in the fields with no tag
RebuiltZero ==
    \A i \in 1..Len(Types[typ]) :
        ( /\ Tagged(Types[typ][i])
          /\ Types[typ][i].kind = "slice" /\ Types[typ][i].elem = "struct"
          /\ config'[i] # config[i] )
        => \A k \in 1..Len(config'[i]) :
               ZeroUntagged(Types[typ][i].fields, config'[i][k]) = config'[i][k]

\* C2 (amended): a field with no tag is left alone.  Save issues no remote call
\* whose path or value comes from it, at any depth; it never gets a registry
\* entry; and no step of the client (Save, Load, a watch re-fill) changes its
\* value when it is reached through structures.  The elements of a slice of
\* structures are built anew by Load and by a watch re-fill: their fields with
\* no tag hold the zero value afterwards.
C2_UntaggedUntouched ==
    /\ [](SaveIgnoresUntagged /\ RegistryTagged)
    /\ [][SameUntagged(Types[typ], config, config') /\ RebuiltZero]_vars

\* C2 (as the specification states it): the same, and the fields with no tag of
\* the elements of a slice of structures keep their values too.
C2_UntaggedUntouchedDeep ==
    /\ [](SaveIgnoresUntagged /\ RegistryTagged)
    /\ [][SameUntaggedDeep(Types[typ], config, config')]_vars

\* a watch re-fill of a tagged structure changed its integer and left the field
\* with no tag beside it as it was
C2_Witness ==
    /\ typ = 2 /\ Len(sessions) = 1 /\ sessions[1].callbacks = 1
    /\ last.op = "Watch" /\ last.pre[1][1] # 7 /\ last.pre[1][2] = <<"x">>
    /\ config[1][1] = 7 /\ config[1][2] = <<"x">>

\* the tagged fields reached from the structure through tagged structures
RECURSIVE TaggedLocs(_, _)
TaggedLocs(fields, loc) ==
    UNION { IF ~Tagged(fields[i]) THEN {}
            ELSE { Append(loc, i) } \cup
                 (IF fields[i].kind = "struct" THEN TaggedLocs(fields[i].fields, Append(loc, i))
                  ELSE {}) :
            i \in 1..Len(fields) }

\* the tags on the way to a field, one after the other
RECURSIVE PathOf(_, _)
PathOf(t, loc) ==
    IF loc = <<>> THEN <<>>
    ELSE PathOf(t, SubSeq(loc, 1, Len(loc) - 1)) \o FldAt(RootFld(t), loc).tag

\* the key of the registry for a location: the root marker for the structure
KeyOf(t, loc) == IF loc = <<>> THEN <<"/">> ELSE PathOf(t, loc)

\* the structure and its tagged fields
Registrable(t) == { <<>> } \cup TaggedLocs(Types[t], <<>>)

\* the client exists and the caller made no Save, Load or Watch yet
JustBuilt == client = "ok" /\ calls = 0

\* C11: after NewClient and before any Save, Load or Watch, the registry holds
\* exactly one entry for the structure, under "/", and one per tagged field
\* reached through tagged structures, under the concatenation of the tags;
\* every entry has version 0, no field with no tag has one, and Version on a
\* reference to any of these fields returns 0 and no error.
C11_RegistryAfterNewClient ==
    JustBuilt =>
        /\ DOMAIN info = { KeyOf(typ, l) : l \in Registrable(typ) }
        /\ \A l \in Registrable(typ) :
               info[KeyOf(typ, l)] = Info(Ref(l, FldAt(RootFld(typ), l).kind), 0)
        /\ \A path \in DOMAIN info :
               info[path].field.loc = <<>> \/ Tagged(FldAt(RootFld(typ), info[path].field.loc))
        /\ (last.op = "Version" /\ last.arg.ptr /\ last.arg.loc \in Registrable(typ))
               => last.err = "nil" /\ last.ret = 0

\* Version was asked, right after NewClient, for a field of a nested
\* structure that stands beside a field with no tag
C11_Witness ==
    /\ JustBuilt /\ typ = 2 /\ Cardinality(DOMAIN info) = 5
    /\ last.op = "Version" /\ last.arg.ptr /\ last.arg.loc = <<1, 3>>
    /\ last.err = "nil" /\ last.ret = 0

\* the last call is a Watch or a Version
FieldCall == last.op \in {"Watch", "Version"}

\* the reference handed to the call is to a structure the client was not built
\* with
Foreign(arg) == arg.ptr /\ arg.loc = <<0>>

\* C12: Watch and Version fail with ErrFieldNotMapped when handed a reference
\* to a field that is not of the registered structure, and with ErrFieldNotAddr
\* when handed a value that is not a reference; the failing call starts no
\* goroutine, issues no remote call and changes nothing of the client.
C12_FieldNotMappedNotAddr ==
    /\ [](FieldCall =>
             /\ ~last.arg.ptr => last.err = "ErrFieldNotAddr"
             /\ Foreign(last.arg) => last.err = "ErrFieldNotMapped")
    /\ [][(last' # last /\ last'.op \in {"Watch", "Version"} /\ last'.err # "nil")
             => /\ last'.log = <<>>
                /\ sessions' = sessions
                /\ nodes' = nodes /\ etcdIndex' = etcdIndex
                /\ info' = info /\ config' = config]_vars

\* a Watch on a structure the client does not know failed, after a Save that
\* filled the store, and no session exists
C12_Witness ==
    /\ last.op = "Watch" /\ Foreign(last.arg) /\ last.err = "ErrFieldNotMapped"
    /\ nodes # <<>> /\ sessions = <<>>

\* the tagged fields the last Load filled: those of the structure, and those
\* of its tagged nested structures whose node the store returned
LoadFilled ==
    { l \in TaggedLocs(Types[typ], <<>>) : Lookup(last.postNodes, PathOf(typ, l)) # NotFound }

\* the modification version of the node the store returned to the last Load
\* for a field
LoadedIndex(l) == NodeAt(last.postNodes, Lookup(last.postNodes, PathOf(typ, l))).ModifiedIndex

\* C13: after a Load that returned no error, Version on a reference to a
\* tagged field the Load filled returns the modification version of the node
\* the store returned for the path of the field, and no error, and it issues no
\* remote call: the answer is the one of the Load even when the store was
\* written since.
C13_VersionAfterLoad ==
    [][(/\ last.op = "Load" /\ last.err = "nil"
        /\ last' # last /\ last'.op = "Version"
        /\ last'.arg.ptr /\ last'.arg.loc \in LoadFilled)
       => /\ last'.err = "nil"
          /\ last'.ret = LoadedIndex(last'.arg.loc)
          /\ last'.log = <<>> /\ nodes' = nodes /\ etcdIndex' = etcdIndex]_vars

\* the integers the structures and the store of the model hold
StoredIntegers == {0 - 7, 0, 7, 10, 20}

\* v is the value a text stands for, for a scalar of the kind
DecodesTo(kind, text, v) ==
    CASE kind = "string" -> v = text
      [] kind \in IntKinds -> v \in StoredIntegers /\ Decimal(v) = text
      [] kind = "bool" -> v = (text = <<"t", "r", "u", "e">>) /\ (v \/ text = <<"f", "a", "l", "s", "e">>)

\* what follows the last separator of a key
RECURSIVE BaseName(_)
BaseName(key) ==
    IF key = <<>> \/ key[Len(key)] = "/" THEN <<>>
    ELSE Append(BaseName(SubSeq(key, 1, Len(key) - 1)), key[Len(key)])

\* v is what the subtree of node n of the store ns decodes to, for field f: a
\* scalar from the value of the node, a map and a slice from the children the
\* node has now, a structure from the children of its tagged scalars
FieldDecoded(ns, f, n, v) ==
    LET kids == Children(ns, n)
    IN  CASE f.kind \in ScalarKinds -> DecodesTo(f.kind, ns[n].Value, v)
          [] f.kind = "map" ->
                /\ ~v.nil
                /\ DOMAIN v.m = { BaseName(ns[kids[k]].Key) : k \in 1..Len(kids) }
                /\ \A k \in 1..Len(kids) : v.m[BaseName(ns[kids[k]].Key)] = ns[kids[k]].Value
          [] f.kind = "slice" /\ f.elem \in ScalarKinds ->
                /\ Len(v) = Len(kids)
                /\ \A k \in 1..Len(kids) : DecodesTo(f.elem, ns[kids[k]].Value, v[k])
          [] f.kind = "slice" /\ f.elem = "struct" -> Len(v) = Len(kids)
          [] f.kind = "struct" ->
                \A i \in 1..Len(f.fields) :
                    \A k \in 1..Len(kids) :
                        ( /\ Tagged(f.fields[i]) /\ f.fields[i].kind \in ScalarKinds
                          /\ ns[kids[k]].Key = ns[n].Key \o f.fields[i].tag )
                        => DecodesTo(f.fields[i].kind, ns[kids[k]].Value, v[i])
          [] OTHER -> TRUE

\* the goroutine of session s takes a response from its receiver channel
Receives(s) == s \in DOMAIN sessions /\ sessions[s].receiver /\ ~sessions'[s].receiver

\* the Get of the path of session s is answered with a node
Refetched(s) ==
    FaultOf("Get", sessions[s].path) = "nil" /\ Lookup(nodes, sessions[s].path) # NotFound

\* the field of session s is re-filled from the store as it is, the version of
\* its registry entry is the one of the node, and the callback ran once more
Refilled(s) ==
    /\ FieldDecoded(nodes, FldAt(RootFld(typ), sessions[s].loc), Lookup(nodes, sessions[s].path),
                    GetAt(config', sessions[s].loc))
    /\ info'[sessions[s].path].version = NodeAt(nodes, Lookup(nodes, sessions[s].path)).ModifiedIndex
    /\ sessions'[s].callbacks = sessions[s].callbacks + 1

\* C14: for every notification a session takes and whose re-fetch succeeds,
\* the watched field holds the value decoded from the re-fetched subtree (for
\* a map or a slice exactly the children the store has now), the version in
\* the registry is the one of the node, and the callback ran exactly once.
C14_RefillThenCallback ==
    [][\A s \in 1..MaxCalls : (Receives(s) /\ Refetched(s)) => Refilled(s)]_vars

\* the session the last Watch started, and the version the registry held for
\* its path when the Watch was called
Started == sessions[Len(sessions)]

KnownVersion == last.preInfo[Started.path].version

\* C15: the long-poll a Watch starts asks the store for the updates that follow
\* the version the registry holds for the field (the index after it), and for
\* all of them when the field was never loaded.
C15_WatchFromKnownVersion ==
    (last.op = "Watch" /\ last.err = "nil") =>
        IF KnownVersion = 0 THEN Started.waitIndex \in {0, 1}
        ELSE Started.waitIndex = KnownVersion + 1

\* C16: once the caller closed the channel Watch returned, the goroutine of the
\* session returns (under fair scheduling), and a goroutine that returned
\* stays so: it takes no further response and runs no further callback.
C16_StopIsReachedAndTerminal ==
    /\ \A s \in 1..MaxCalls :
           (s \in DOMAIN sessions /\ sessions[s].stop /\ ~sessions[s].done)
               ~> (s \in DOMAIN sessions /\ sessions[s].done)
    /\ [][\A s \in DOMAIN sessions :
             sessions[s].done =>
                 /\ sessions'[s].done
                 /\ sessions[s].receiver => sessions'[s].receiver
                 /\ sessions'[s].callbacks = sessions[s].callbacks]_vars

\* a session that handled a notification was stopped and its goroutine returned
C16_Witness ==
    /\ Len(sessions) = 1 /\ sessions[1].callbacks = 1
    /\ sessions[1].stop /\ sessions[1].done

Tree(ns) ==
    { <<ns[i].Key, ns[i].Value, Len(Children(ns, i))>> : i \in 1..Len(ns) }
        \cup { <<RootNode.Key, RootNode.Value, Len(Children(ns, 0))>> }

\* a Save that follows a Save which returned no error, of the same structure,
\* the store written by nobody in between
SavesAgain ==
    /\ last.op = "Save" /\ last.err = "nil"
    /\ saved.valid /\ saved.val = config /\ nodes = last.postNodes
    /\ last'.op = "Save" /\ calls' = calls + 1

\* C18: a second Save of an unchanged structure, with no other writer, returns
\* no error and leaves the tree with the paths, the values and the numbers of
\* children the first Save left.
C18_ResaveIsIdempotent ==
    [][SavesAgain => (last'.err = "nil" /\ Tree(nodes') = Tree(nodes))]_vars

\* the kinds save and fillField have a case for
RecognizedKinds == {"struct", "map", "slice", "string", "int", "int64", "bool"}

\* the tagged fields of the structure whose kind has no case
IgnoredFields ==
    { i \in 1..Len(Types[typ]) :
        Len(Types[typ][i].tag) # 0 /\ Types[typ][i].kind \notin RecognizedKinds }

\* the last call failed in the remote call it made for path p
FailedAt(p) ==
    /\ last.err # "nil" /\ last.log # <<>>
    /\ last.log[Len(last.log)].path = p /\ last.log[Len(last.log)].err # "nil"

\* C19: for a tagged field of an unrecognised kind a Save issues no write at
\* its path, and a Load leaves the field as it was and does not fail in the call
\* made for its path, whatever the store holds there (a node or nothing).
C19_UnrecognizedKindIgnored ==
    \A i \in IgnoredFields :
        /\ last.op = "Save" =>
               \A k \in 1..Len(last.log) :
                   last.log[k].method = "Get" \/ last.log[k].path # Types[typ][i].tag
        /\ last.op = "Load" =>
               /\ last.post[i] = last.pre[i]
               /\ ~FailedAt(Types[typ][i].tag)

\* the only session of the client handled one notification, was not cancelled,
\* and the store has another change to hand out
SecondChange ==
    /\ Len(sessions) = 1
    /\ sessions[1].callbacks = 1 /\ ~sessions[1].stop
    /\ change # <<>>

\* C20: with a store whose Watch hands out one notification per call, a session
\* that handled a notification and was not cancelled handles the next change
\* too (under fair scheduling): its callback runs a second time, unless the
\* caller cancels it or starts another session first.
C20_SecondChangeIsHandled ==
    SecondChange ~> \/ Len(sessions) > 1
                    \/ Len(sessions) = 1 /\ (sessions[1].callbacks >= 2 \/ sessions[1].stop)

\* C21: once the caller closed the stop channel of a session, its goroutine
\* takes no response from receiver and runs no callback, even when a response
\* is waiting in receiver at that moment.
C21_NothingHandledAfterStop ==
    [][\A s \in 1..MaxCalls :
          (s \in DOMAIN sessions /\ sessions[s].stop) =>
              /\ sessions'[s].callbacks = sessions[s].callbacks
              /\ sessions[s].receiver => sessions'[s].receiver]_vars

\* the goroutine of session s is inside its handler, which ends with the
\* write of the registry
Handling(s) == s \in DOMAIN sessions /\ sessions[s].handling

\* C22: nothing keeps a goroutine that has a response to handle from entering
\* its handler, and nothing keeps the caller from entering a method of the
\* client, whoever else is inside code that reads or writes the registry.
C22_RegistryUnguarded ==
    /\ \A s \in DOMAIN sessions :
           (sessions[s].receiver /\ ~sessions[s].done /\ ~sessions[s].handling)
               => ENABLED HandlerEnter(s)
    /\ (client = "ok" /\ last.op # "entered") => \A op \in CallerOps : ENABLED Enter(op)

\* the caller is inside Save and the goroutine of a session is inside its
\* handler, both at once
C22_Witness == Entered("Save") /\ Handling(1)

\* the structure, its nested structures and their first fields: the registered
\* locations whose address is also the address of another registered location
SharesAddress(t) ==
    { l \in Registrable(t) :
        \E m \in Registrable(t) \ {l} : Pointer(t, m) = Pointer(t, l) }

\* the last call was handed a reference to such a location
Aliased == last.arg.ptr /\ last.arg.loc \in SharesAddress(typ)

\* C23: a Version handed a reference to a structure or to its first field
\* returns the version of the entry of that very location, and a Watch handed
\* one starts a session on the path of that very location.
C23_FirstFieldKeptApart ==
    /\ (last.op = "Version" /\ Aliased) =>
           /\ last.err = "nil"
           /\ last.ret = last.preInfo[KeyOf(typ, last.arg.loc)].version
    /\ (last.op = "Watch" /\ Aliased) =>
           /\ last.err = "nil"
           /\ Started.path = KeyOf(typ, last.arg.loc)

\* element k of the slice of structures v was filled from the leaves of the
\* directory d: every tagged scalar field of f holds what the leaf at the key
\* of d followed by its tag decodes to
ElementFrom(ns, f, d, el) ==
    \A j \in 1..Len(f.fields) :
        \A leaf \in 1..Len(ns) :
            ( /\ Tagged(f.fields[j]) /\ f.fields[j].kind \in ScalarKinds
              /\ ns[leaf].parent = d /\ ns[leaf].Key = ns[d].Key \o f.fields[j].tag )
            => DecodesTo(f.fields[j].kind, ns[leaf].Value, el[j])

\* the tagged fields of the structure that are slices of structures
StructSlices ==
    { i \in 1..Len(Types[typ]) :
        Tagged(Types[typ][i]) /\ Types[typ][i].kind = "slice" /\ Types[typ][i].elem = "struct" }

\* C24: after a Load that returned no error, a tagged slice of structures has
\* one element per child directory of its node, in the order of the children,
\* and each element is filled from the leaves of its own directory, whatever
\* the key of the directory is.
C24_ElementsFromOwnDirectory ==
    (last.op = "Load" /\ last.err = "nil") =>
        \A i \in StructSlices :
            LET kids == Children(last.preNodes, Lookup(last.preNodes, Types[typ][i].tag))
            IN  /\ Len(last.post[i]) = Len(kids)
                /\ \A k \in 1..Len(kids) :
                       ElementFrom(last.preNodes, Types[typ][i], kids[k], last.post[i][k])

\* the tagged fields of the structure that are slices of scalars
ScalarSlices ==
    { i \in 1..Len(Types[typ]) :
        Tagged(Types[typ][i]) /\ Types[typ][i].kind = "slice" /\ Types[typ][i].elem \in ScalarKinds }

\* C25: after a Load that returned no error, a tagged slice of scalars has one
\* element per child of its node, in the order of the children, element k
\* being what the value of child k decodes to; nothing of the former slice is
\* kept.
C25_SliceOfScalarsLoaded ==
    (last.op = "Load" /\ last.err = "nil") =>
        \A i \in ScalarSlices :
            LET kids == Children(last.preNodes, Lookup(last.preNodes, Types[typ][i].tag))
            IN  /\ Len(last.post[i]) = Len(kids)
                /\ \A k \in 1..Len(kids) :
                       DecodesTo(Types[typ][i].elem, last.preNodes[kids[k]].Value, last.post[i][k])

\* the tagged scalar fields of the structure and of its nested structures
ScalarLocs == { l \in TaggedLocs(Types[typ], <<>>) : FldAt(RootFld(typ), l).kind \in ScalarKinds }

\* the text the store held, when the last call began, at the path of a field
TextAt(l) == NodeAt(last.preNodes, Lookup(last.preNodes, PathOf(typ, l))).Value

\* some value of the kind is written as the text
Decodable(kind, text) ==
    CASE kind = "string" -> TRUE
      [] kind \in IntKinds -> \E v \in StoredIntegers : Decimal(v) = text
      [] kind = "bool" -> text \in {FormatBool(TRUE), FormatBool(FALSE)}

\* the flags whose leaf holds a text that is neither "true" nor "false"
BadFlags ==
    { l \in ScalarLocs :
        /\ FldAt(RootFld(typ), l).kind = "bool"
        /\ Lookup(last.preNodes, PathOf(typ, l)) # NotFound
        /\ ~Decodable("bool", TextAt(l)) }

\* the store answers every Get, holds a node for every tagged field, and the
\* text of every scalar field but l can be decoded
OthersRegular(l) ==
    /\ \A f \in faults : f.method # "Get"
    /\ \A m \in TaggedLocs(Types[typ], <<>>) : Lookup(last.preNodes, PathOf(typ, m)) # NotFound
    /\ \A m \in ScalarLocs \ {l} : Decodable(FldAt(RootFld(typ), m).kind, TextAt(m))

\* C26: a Load leaves a flag whose leaf is neither "true" nor "false" as it
\* was; that leaf is no cause of error (with the rest of the store in order
\* the Load returns none), and every other scalar field, those after the flag
\* included, holds what its leaf decodes to.
C26_BadFlagLeftAlone ==
    last.op = "Load" =>
        \A l \in BadFlags :
            /\ GetAt(last.post, l) = GetAt(last.pre, l)
            /\ OthersRegular(l) =>
                   /\ last.err = "nil"
                   /\ \A m \in ScalarLocs \ {l} :
                          DecodesTo(FldAt(RootFld(typ), m).kind, TextAt(m), GetAt(last.post, m))

\* a Load met "on" at the flag of the nested structure, left the flag set,
\* went on to the field after the structure and returned no error
C26_Witness ==
    /\ typ = 2 /\ last.op = "Load" /\ last.err = "nil"
    /\ <<1, 3>> \in BadFlags /\ GetAt(last.post, <<1, 3>>) = TRUE
    /\ last.log[Len(last.log)].path = <<"/", "c">> /\ GetAt(last.post, <<2>>) = 20

\* the subtree the store returns for the path of session s cannot be decoded
\* into the watched field: fillField returns an error
DecodeFails(s) ==
    fillField(nodes, info, FldAt(RootFld(typ), sessions[s].loc), GetAt(config, sessions[s].loc),
              sessions[s].loc, Lookup(nodes, sessions[s].path), sessions[s].path).err # "nil"

\* C27: when a session takes a notification, the re-fetch succeeds and the
\* subtree cannot be decoded into the field, the callback does not run and the
\* goroutine has not returned.
C27_DecodeFailureIsDropped ==
    [][\A s \in 1..MaxCalls :
          (Receives(s) /\ Refetched(s) /\ DecodeFails(s)) =>
              /\ sessions'[s].callbacks = sessions[s].callbacks
              /\ ~sessions'[s].done]_vars

\* C28: the version the registry holds for a registered field, which is what
\* Version returns for it, never decreases from one step to the next; so it
\* is not 0 again once a Load made it positive.
C28_VersionNeverDecreases ==
    [][\A p \in DOMAIN info :
          p \in DOMAIN info' => info'[p].version >= info[p].version]_vars

\* C29: for a structure with a tagged slice of integers, of 64-bit integers
\* or of flags, a Save followed by a Load into a zero-valued instance, with no
\* other writer before or in between and a store that answers the reads,
\* returns no error and the slice has the elements that were saved, in their
\* order.
C29_RoundTripSliceOfNumbers ==
    ( /\ LoadAfterSave /\ ReadsAnswered /\ foreign = 0
      /\ ScalarSlices # {}
      /\ \A i \in ScalarSlices : Types[typ][i].elem \in IntKinds \cup {"bool"}
      /\ last.pre = ZeroFields(Types[typ]) )
    => /\ last.err = "nil"
       /\ \A i \in ScalarSlices : last.post[i] = saved.val[i]

\* what a Load called now, on the store as it is, would return
LoadNow == load(nodes, etcdIndex, LRun(config, info, <<>>, "nil"), Types[typ], <<>>, 1)

\* C30: when a session takes a notification and handles it (the re-fetch
\* succeeds and the callback runs), the watched field, the structure itself
\* (registered under "/") included, holds afterwards the value that a Load of
\* the same store, returning no error, gives this field.
C30_WatchAgreesWithLoad ==
    [][\A s \in 1..MaxCalls :
          (Receives(s) /\ sessions'[s].callbacks > sessions[s].callbacks /\ LoadNow.err = "nil") =>
              GetAt(config', sessions[s].loc) = GetAt(LoadNow.val, sessions[s].loc)]_vars

====
